---- MODULE Spec2Model ----
(***************************************************************************)
(* BADSEED SOIL analytics: the event ingestor (analytics-track), its       *)
(* per-day aggregate fold, the two storage backends it can select          *)
(* (Netlify Blobs, in-memory localStore), and the retrieval handlers       *)
(* (analytics-get) with their summary merge and their two formatters.      *)
(*                                                                         *)
(* Encodings.  Time is in milliseconds counted from 00:00 UTC of model day *)
(* 0, so every instant fits a 32-bit integer.  The handlers of the state   *)
(* machines run with UTC as the server's local time zone; the calendar     *)
(* window of a summary, which mixes local and UTC date arithmetic, is also *)
(* computed for zones with an offset and a transition (Zone).              *)
(* An ISO date string YYYY-MM-DD is its day number.  A JS string           *)
(* that is hashed is its sequence of char codes; every other string is a   *)
(* TLA+ string.  A JS object used as a map is a function whose DOMAIN is   *)
(* the set of its own keys.  A request field that is absent, null or       *)
(* otherwise falsy is "" for strings and 0 for numbers (JS `x || default`  *)
(* and `if (x)` treat all of these alike).                                 *)
(***************************************************************************)
EXTENDS Integers, Sequences, FiniteSets, TLC

VARIABLES
    now,          \* Date.now(): the server clock
    env,          \* process.env of the function process
    blobEvents,   \* Netlify Blobs store 'soil-analytics': events/<date>/<hour>/<id> -> record
    blobStats,    \* Netlify Blobs store 'soil-analytics': stats/<date> -> aggregate
    localStore,   \* the in-memory fallback {events: [], stats: {}}
    pc,           \* per invocation of the handler: where it is suspended
    call,         \* per invocation: the locals of the handler (record, today, hour, key, stats)
    resp,         \* per invocation: the response returned
    nextId,       \* source of the unique <millis>-<rand9> suffix of event keys
    started,      \* number of handler invocations begun so far
    foldIn,       \* fold harness: the aggregate the folds start from (empty: none stored)
    foldLog,      \* fold harness: the requests folded so far, in order
    foldAgg,      \* fold harness: the aggregate of updateProductionStats
    foldLocal,    \* fold harness: the aggregate of the local branch
    qry,          \* the query in flight: the locals of the retrieval handler
    report        \* the response of the last query

sysVars == <<now, env, blobEvents, blobStats, localStore, pc, call, resp, nextId, started>>
foldVars == <<foldIn, foldLog, foldAgg, foldLocal>>
qryVars == <<qry, report>>
vars == <<sysVars, foldVars, qryVars>>

----------------------------------------------------------------------------
\* Bounds of the model.

MaxIngests == 3
MaxPermuted == 3
MaxFold == 3

\* The handler invocations that can be in flight at once.
Procs == {1, 2}

----------------------------------------------------------------------------
\* Time.

MsPerMinute == 60000
MsPerHour == 3600000
MsPerDay == 86400000
HoursPerDay == 24

At(day, hh, mm) == day * MsPerDay + hh * MsPerHour + mm * MsPerMinute

\* new Date(t).toISOString().split('T')[0]
DateOf(t) == t \div MsPerDay

\* new Date(t).getHours()
HourOf(t) == (t \div MsPerHour) % HoursPerDay

\* The instants the server clock takes in the model: late on day 0, then early
\* on day 1.
Instants == { At(0, 23, 50), At(1, 0, 5) }

----------------------------------------------------------------------------
\* Domain constants of the tracker.

VALID_EVENTS ==
    { "page_view", "page_exit", "page_hidden", "page_visible",
      "card_hover_start", "card_hover_end", "card_click",
      "iframe_hover_start", "iframe_hover_end", "iframe_ready",
      "session_start", "session_end" }

Cards == { "voice", "value", "agent" }

ZeroCards == [c \in Cards |-> 0]

EmptyMap == [k \in {} |-> 0]

\* m[k] = (m[k] || 0) + 1
Bump(m, k) ==
    [x \in DOMAIN m \cup {k} |->
        IF x = k THEN (IF k \in DOMAIN m THEN m[k] ELSE 0) + 1 ELSE m[x]]

\* Array.prototype.includes
Includes(s, v) == \E i \in 1..Len(s) : s[i] = v

----------------------------------------------------------------------------
\* hashString: hash = ((hash << 5) - hash) + char; hash = hash & hash, i.e.
\* hash*31 + char wrapped to 32 bits.  The 32-bit value is kept as two 16-bit
\* limbs <<hi, lo>> of its two's-complement pattern.

Limb == 65536

HashStep(h, c) ==
    LET lo == h[2] * 31 + c
        hi == h[1] * 31 + (lo \div Limb)
    IN  << hi % Limb, lo % Limb >>

\* the for loop over str, from index i on
RECURSIVE HashFrom(_, _, _)
HashFrom(h, str, i) ==
    IF i > Len(str) THEN h ELSE HashFrom(HashStep(h, str[i]), str, i + 1)

\* Math.abs of the signed 32-bit value, again as limbs; toString(36) is an
\* injective rendering of that magnitude.
AbsLimbs(h) ==
    IF h[1] < Limb \div 2 THEN h
    ELSE IF h[2] = 0 THEN << Limb - h[1], 0 >>
    ELSE << Limb - 1 - h[1], Limb - h[2] >>

hashString(str) == AbsLimbs(HashFrom(<<0, 0>>, str, 1))

\* String.prototype.substring(0, n)
Substring0(str, n) == SubSeq(str, 1, IF Len(str) < n THEN Len(str) ELSE n)

UaPrefixLen == 50

----------------------------------------------------------------------------
\* Requests.  A request is the parsed JSON body plus the headers the handler
\* reads.  Absent string fields are "", JS null is NullV, an absent or zero
\* number is 0, an absent `data` object is the empty map.

NullV == "null"

IpA == <<49>>
IpB == <<50>>
UaShort == <<77>>
UaOther == <<83, 97>>
\* the char codes of 'unknown'
UnknownChars == <<117, 110, 107, 110, 111, 119, 110>>

UrlA == "https://badseed.xyz/a"
UrlB == "https://badseed.xyz/b"
UrlC == "https://example.org/"
BadUrl == "not a url"

\* new URL(ref).hostname; Parsed is FALSE where the constructor throws.
ParseUrl(ref) ==
    CASE ref = UrlA -> [parsed |-> TRUE, hostname |-> "badseed.xyz"]
      [] ref = UrlB -> [parsed |-> TRUE, hostname |-> "badseed.xyz"]
      [] ref = UrlC -> [parsed |-> TRUE, hostname |-> "example.org"]
      [] OTHER -> [parsed |-> FALSE, hostname |-> ""]

NoData == EmptyMap
Dur(n) == [k \in {"duration"} |-> n]

\* data?.duration
DurationOf(data) == IF "duration" \in DOMAIN data THEN data["duration"] ELSE 0

Req(ev, cd, dt, ts, ip, ua, ref, ctry) ==
    [ event |-> ev, page |-> "", card |-> cd, data |-> dt, sessionId |-> "",
      timestamp |-> ts,
      xForwardedFor |-> ip, clientIp |-> <<>>, userAgent |-> ua,
      referer |-> ref, xCountry |-> ctry, xNfClientConnectionIp |-> "" ]

ReqsOf(evs, cds, dts, tss, ips, uas, refs, ctries) ==
    { Req(ev, cd, dt, ts, ip, ua, ref, ctry) :
        ev \in evs, cd \in cds, dt \in dts, ts \in tss,
        ip \in ips, ua \in uas, ref \in refs, ctry \in ctries }

----------------------------------------------------------------------------
\* analytics-track.js, exports.handler: the synchronous part before the
\* backend branch.

\* Variant: only the `!eventType` half of the test.
InvalidEvent_MissingOnly(req) == req.event = ""

\* !eventType || !VALID_EVENTS.includes(eventType)
InvalidEvent(req) == req.event = "" \/ req.event \notin VALID_EVENTS

\* the clientInfo object
ClientInfo(req) ==
    [ ip |-> IF req.xForwardedFor # <<>> THEN req.xForwardedFor
             ELSE IF req.clientIp # <<>> THEN req.clientIp
             ELSE UnknownChars,
      userAgent |-> IF req.userAgent # <<>> THEN req.userAgent ELSE UnknownChars,
      referer |-> IF req.referer # "" THEN req.referer ELSE "direct",
      country |-> IF req.xCountry # "" \/ req.xNfClientConnectionIp # ""
                  THEN "detected" ELSE "unknown" ]

VisitorHash(req) ==
    LET ci == ClientInfo(req)
    IN  hashString(ci.ip \o Substring0(ci.userAgent, UaPrefixLen))

\* the eventRecord object; t is Date.now()
EventRecord(req, t) ==
    LET ci == ClientInfo(req)
    IN  [ event |-> req.event,
          page |-> IF req.page # "" /\ req.page # NullV THEN req.page ELSE "gateway",
          card |-> IF req.card # "" /\ req.card # NullV THEN req.card ELSE NullV,
          data |-> req.data,
          sessionId |-> IF req.sessionId # "" /\ req.sessionId # NullV
                        THEN req.sessionId ELSE NullV,
          visitorHash |-> VisitorHash(req),
          timestamp |-> IF req.timestamp # 0 THEN req.timestamp ELSE t,
          serverTime |-> t,
          client |-> [ country |-> ci.country, referer |-> ci.referer ] ]

\* Variant: the key has no random part.
EventKey_NoRand(t, id) == [ date |-> DateOf(t), hour |-> HourOf(t), id |-> <<t, 0>> ]

\* `events/${today}/${hour}/${Date.now()}-${rand}`: the suffix is the pair of
\* the write instant and a per-call unique number.
EventKey(t, id) == [ date |-> DateOf(t), hour |-> HourOf(t), id |-> <<t, id>> ]

----------------------------------------------------------------------------
\* The per-day aggregate and its fold.

\* the zero-valued stats literal of updateProductionStats
NewStats(date, t) ==
    [ date |-> date, pageViews |-> 0, uniqueVisitors |-> <<>>,
      cardHovers |-> ZeroCards, cardClicks |-> ZeroCards, cardHoverTime |-> ZeroCards,
      sessions |-> 0, totalSessionDuration |-> 0,
      countries |-> EmptyMap, referers |-> EmptyMap,
      hourlyActivity |-> [h \in 0..(HoursPerDay - 1) |-> 0],
      lastUpdated |-> t ]

\* A value that is not a finite number: NaN, Infinity, or a string that an
\* addition has produced.
NonFinite == -2147483647

\* null, which is what JSON.stringify writes for NaN
JsonNull == -2147483646

\* The function-valued properties that every plain object (an object literal,
\* an object JSON.parse returns) inherits from Object.prototype.
ObjectPrototypeKeys ==
    { "constructor", "hasOwnProperty", "isPrototypeOf", "propertyIsEnumerable",
      "toLocaleString", "toString", "valueOf" }

\* event.card && m[event.card] !== undefined, m one of stats.cardHovers,
\* stats.cardClicks, stats.cardHoverTime: the property lookup finds the own
\* keys of m and the inherited ones
KnownCard(m, card) ==
    /\ card # NullV
    /\ card # ""
    /\ card \in DOMAIN m \cup ObjectPrototypeKeys

\* m[k] += n, and m[k]++ for n = 1, where m[k] !== undefined.  An inherited
\* function plus a number is NaN (++) or a string (+=), and the assignment
\* makes k an own key; NaN and a string stay what they are; null counts as 0.
AddTo(m, k, n) ==
    [x \in DOMAIN m \cup {k} |->
        IF x # k THEN m[x]
        ELSE IF k \notin DOMAIN m THEN NonFinite
        ELSE IF m[k] = NonFinite THEN NonFinite
        ELSE IF m[k] = JsonNull THEN n
        ELSE m[k] + n]

\* JSON.stringify then JSON.parse of a map of counters: NaN comes back as null
JsonCounts(m) == [k \in DOMAIN m |-> IF m[k] = NonFinite THEN JsonNull ELSE m[k]]

\* store.setJSON(statsKey, stats) followed by store.get(statsKey, {type:
\* 'json'}): the counters of cardHovers and cardClicks that were NaN are null;
\* a string of cardHoverTime is kept
JsonStats(stats) ==
    [stats EXCEPT !.cardHovers = JsonCounts(@), !.cardClicks = JsonCounts(@)]

\* Variant: pageViews++ moved inside the `if (!includes)`.
ApplyKind_CountNewOnly(stats, ev) ==
    CASE ev.event = "page_view" ->
            IF Includes(stats.uniqueVisitors, ev.visitorHash) THEN stats
            ELSE [stats EXCEPT !.pageViews = @ + 1,
                               !.uniqueVisitors = Append(@, ev.visitorHash)]
      [] ev.event = "session_start" ->
            [stats EXCEPT !.sessions = @ + 1]
      [] ev.event = "card_hover_start" /\ KnownCard(stats.cardHovers, ev.card) ->
            [stats EXCEPT !.cardHovers = AddTo(@, ev.card, 1)]
      [] ev.event = "card_hover_end" /\ KnownCard(stats.cardHoverTime, ev.card)
            /\ DurationOf(ev.data) # 0 ->
            [stats EXCEPT !.cardHoverTime = AddTo(@, ev.card, DurationOf(ev.data))]
      [] ev.event = "card_click" /\ KnownCard(stats.cardClicks, ev.card) ->
            [stats EXCEPT !.cardClicks = AddTo(@, ev.card, 1)]
      [] ev.event = "session_end" /\ DurationOf(ev.data) # 0 ->
            [stats EXCEPT !.totalSessionDuration = @ + DurationOf(ev.data)]
      [] OTHER -> stats

\* Variant: cardHoverTime[card] = duration in place of +=.
ApplyKind_LastHover(stats, ev) ==
    CASE ev.event = "page_view" ->
            [stats EXCEPT
                !.pageViews = @ + 1,
                !.uniqueVisitors =
                    IF Includes(@, ev.visitorHash) THEN @ ELSE Append(@, ev.visitorHash)]
      [] ev.event = "session_start" ->
            [stats EXCEPT !.sessions = @ + 1]
      [] ev.event = "card_hover_start" /\ KnownCard(stats.cardHovers, ev.card) ->
            [stats EXCEPT !.cardHovers = AddTo(@, ev.card, 1)]
      [] ev.event = "card_hover_end" /\ KnownCard(stats.cardHoverTime, ev.card)
            /\ DurationOf(ev.data) # 0 ->
            [stats EXCEPT !.cardHoverTime =
                [x \in DOMAIN @ \cup {ev.card} |->
                    IF x = ev.card THEN DurationOf(ev.data) ELSE @[x]]]
      [] ev.event = "card_click" /\ KnownCard(stats.cardClicks, ev.card) ->
            [stats EXCEPT !.cardClicks = AddTo(@, ev.card, 1)]
      [] ev.event = "session_end" /\ DurationOf(ev.data) # 0 ->
            [stats EXCEPT !.totalSessionDuration = @ + DurationOf(ev.data)]
      [] OTHER -> stats

\* Variant: uniqueVisitors.push without the includes test.
ApplyKind_PushAlways(stats, ev) ==
    CASE ev.event = "page_view" ->
            [stats EXCEPT !.pageViews = @ + 1,
                          !.uniqueVisitors = Append(@, ev.visitorHash)]
      [] ev.event = "session_start" ->
            [stats EXCEPT !.sessions = @ + 1]
      [] ev.event = "card_hover_start" /\ KnownCard(stats.cardHovers, ev.card) ->
            [stats EXCEPT !.cardHovers = AddTo(@, ev.card, 1)]
      [] ev.event = "card_hover_end" /\ KnownCard(stats.cardHoverTime, ev.card)
            /\ DurationOf(ev.data) # 0 ->
            [stats EXCEPT !.cardHoverTime = AddTo(@, ev.card, DurationOf(ev.data))]
      [] ev.event = "card_click" /\ KnownCard(stats.cardClicks, ev.card) ->
            [stats EXCEPT !.cardClicks = AddTo(@, ev.card, 1)]
      [] ev.event = "session_end" /\ DurationOf(ev.data) # 0 ->
            [stats EXCEPT !.totalSessionDuration = @ + DurationOf(ev.data)]
      [] OTHER -> stats

\* the switch (event.event) of updateProductionStats
ApplyKind(stats, ev) ==
    CASE ev.event = "page_view" ->
            [stats EXCEPT
                !.pageViews = @ + 1,
                !.uniqueVisitors =
                    IF Includes(@, ev.visitorHash) THEN @ ELSE Append(@, ev.visitorHash)]
      [] ev.event = "session_start" ->
            [stats EXCEPT !.sessions = @ + 1]
      [] ev.event = "card_hover_start" /\ KnownCard(stats.cardHovers, ev.card) ->
            [stats EXCEPT !.cardHovers = AddTo(@, ev.card, 1)]
      [] ev.event = "card_hover_end" /\ KnownCard(stats.cardHoverTime, ev.card)
            /\ DurationOf(ev.data) # 0 ->
            [stats EXCEPT !.cardHoverTime = AddTo(@, ev.card, DurationOf(ev.data))]
      [] ev.event = "card_click" /\ KnownCard(stats.cardClicks, ev.card) ->
            [stats EXCEPT !.cardClicks = AddTo(@, ev.card, 1)]
      [] ev.event = "session_end" /\ DurationOf(ev.data) # 0 ->
            [stats EXCEPT !.totalSessionDuration = @ + DurationOf(ev.data)]
      [] OTHER -> stats

\* country stats
ApplyCountry(stats, country) ==
    IF country # "" /\ country # "unknown"
    THEN [stats EXCEPT !.countries = Bump(@, country)]
    ELSE stats

\* referer stats: a referer that does not parse is skipped
ApplyReferer(stats, referer) ==
    IF referer # "" /\ referer # "direct" /\ ParseUrl(referer).parsed
    THEN [stats EXCEPT !.referers = Bump(@, ParseUrl(referer).hostname)]
    ELSE stats

\* Variant: the slot is set to 1 in place of ++.
ApplyHour_Set(stats, ts) == [stats EXCEPT !.hourlyActivity[HourOf(ts)] = 1]

\* stats.hourlyActivity[new Date(ts).getHours()]++
ApplyHour(stats, ts) == [stats EXCEPT !.hourlyActivity[HourOf(ts)] = @ + 1]

\* the kinds the switch has a case for
DispatchedKinds ==
    { "page_view", "session_start", "card_hover_start", "card_hover_end", "card_click",
      "session_end" }

\* Variant: the switch has a `default: return`, so that a kind without a case
\* changes nothing at all.
UpdateProductionStats_SkipUnhandled(found, ev, date, t) ==
    LET s0 == IF found # <<>> THEN found[1] ELSE NewStats(date, t)
        s1 == ApplyKind(s0, ev)
        s2 == ApplyCountry(s1, ev.client.country)
        s3 == ApplyReferer(s2, ev.client.referer)
        s4 == ApplyHour(s3, ev.timestamp)
    IN  IF ev.event \notin DispatchedKinds THEN s0 ELSE [s4 EXCEPT !.lastUpdated = t]

\* Variant: the hour slot is that of the server's clock at the fold.
UpdateProductionStats_ServerHour(found, ev, date, t) ==
    LET s0 == IF found # <<>> THEN found[1] ELSE NewStats(date, t)
        s1 == ApplyKind(s0, ev)
        s2 == ApplyCountry(s1, ev.client.country)
        s3 == ApplyReferer(s2, ev.client.referer)
        s4 == ApplyHour(s3, t)
    IN  [s4 EXCEPT !.lastUpdated = t]

\* updateProductionStats between its store.get and its store.setJSON: `found`
\* is the sequence holding what store.get returned (empty when it returned
\* nothing), t is Date.now().
UpdateProductionStats(found, ev, date, t) ==
    LET s0 == IF found # <<>> THEN found[1] ELSE NewStats(date, t)
        s1 == ApplyKind(s0, ev)
        s2 == ApplyCountry(s1, ev.client.country)
        s3 == ApplyReferer(s2, ev.client.referer)
        s4 == ApplyHour(s3, ev.timestamp)
    IN  [s4 EXCEPT !.lastUpdated = t]

\* the zero-valued stats literal of the local branch (no lastUpdated)
NewLocalStats(date) ==
    [ date |-> date, pageViews |-> 0, uniqueVisitors |-> <<>>,
      cardHovers |-> ZeroCards, cardClicks |-> ZeroCards, cardHoverTime |-> ZeroCards,
      sessions |-> 0, totalSessionDuration |-> 0,
      countries |-> EmptyMap, referers |-> EmptyMap,
      hourlyActivity |-> [h \in 0..(HoursPerDay - 1) |-> 0] ]

\* the switch (eventType) of the local branch: it reads the request's own
\* card and data and the handler's visitorHash
LocalApplyKind(stats, req) ==
    CASE req.event = "page_view" ->
            [stats EXCEPT
                !.pageViews = @ + 1,
                !.uniqueVisitors =
                    IF Includes(@, VisitorHash(req)) THEN @ ELSE Append(@, VisitorHash(req))]
      [] req.event = "session_start" ->
            [stats EXCEPT !.sessions = @ + 1]
      [] req.event = "card_hover_start" /\ KnownCard(stats.cardHovers, req.card) ->
            [stats EXCEPT !.cardHovers = AddTo(@, req.card, 1)]
      [] req.event = "card_hover_end" /\ KnownCard(stats.cardHoverTime, req.card)
            /\ DurationOf(req.data) # 0 ->
            [stats EXCEPT !.cardHoverTime = AddTo(@, req.card, DurationOf(req.data))]
      [] req.event = "card_click" /\ KnownCard(stats.cardClicks, req.card) ->
            [stats EXCEPT !.cardClicks = AddTo(@, req.card, 1)]
      [] req.event = "session_end" /\ DurationOf(req.data) # 0 ->
            [stats EXCEPT !.totalSessionDuration = @ + DurationOf(req.data)]
      [] OTHER -> stats

\* the local branch from `if (!localStore.stats[today])` to hourlyActivity++
UpdateLocalStats(found, req, date, t) ==
    LET s0 == IF found # <<>> THEN found[1] ELSE NewLocalStats(date)
        s1 == LocalApplyKind(s0, req)
        s2 == ApplyCountry(s1, ClientInfo(req).country)
    IN  ApplyHour(s2, IF req.timestamp # 0 THEN req.timestamp ELSE t)

----------------------------------------------------------------------------
\* analytics-get: the calendar window of the summary.  The dates are built
\* with the local-time accessors getDate/setDate and rendered with the UTC
\* accessor toISOString, so they depend on the time zone of the process: a
\* zone is its UTC offset before the instant `at` and its offset from then on
\* (one daylight-saving transition).  A local wall clock is kept as a day
\* number and a time of day, so that 30 days of milliseconds are never added
\* up.

Zone(before, at, after) == [ before |-> before, at |-> at, after |-> after ]

UTC == Zone(0, 0, 0)

UtcOffset(z, t) == IF t < z.at THEN z.before ELSE z.after

\* getDate(), and the hours..milliseconds that setDate leaves alone
LocalDay(z, t) == (t + UtcOffset(z, t)) \div MsPerDay
LocalTimeOfDay(z, t) == (t + UtcOffset(z, t)) % MsPerDay

\* day * MsPerDay + ms < at, for ms within two days of 0
IsBefore(day, ms, at) ==
    LET dd == day - (at \div MsPerDay)
    IN  IF dd < -2 THEN TRUE
        ELSE IF dd > 2 THEN FALSE
        ELSE dd * MsPerDay + ms < at % MsPerDay

\* toISOString().split('T')[0] of the local wall clock (day, tod).  A wall
\* clock that the transition skips or repeats is read with the offset before
\* the transition.
DateOfLocal(z, day, tod) ==
    LET off == IF IsBefore(day, tod - z.before, z.at) THEN z.before
               ELSE IF ~IsBefore(day, tod - z.after, z.at) THEN z.after
               ELSE z.before
    IN  day + ((tod - off) \div MsPerDay)

\* date = new Date(); date.setDate(date.getDate() - i); the ISO date of it
DateBack(z, t, i) == DateOfLocal(z, LocalDay(z, t) - i, LocalTimeOfDay(z, t))

\* params.range || '7d'; an omitted parameter is ""
RangeOf(param) == IF param = "" THEN "7d" ELSE param

\* Variant: a range that is not recognised is taken for one day.
DaysOf_ElseOne(range) == IF range = "7d" THEN 7 ELSE IF range = "30d" THEN 30 ELSE 1

\* range === '1d' ? 1 : range === '7d' ? 7 : 30
DaysOf(range) == IF range = "1d" THEN 1 ELSE IF range = "7d" THEN 7 ELSE 30

\* the dates array: index 1 is i = 0
SummaryDates(z, t, range) == [i \in 1..DaysOf(range) |-> DateBack(z, t, i - 1)]

----------------------------------------------------------------------------
\* analytics-get: the summary merge.

\* the totals literal
ZeroTotals ==
    [ pageViews |-> 0, uniqueVisitors |-> <<>>,
      cardHovers |-> ZeroCards, cardClicks |-> ZeroCards, cardHoverTime |-> ZeroCards,
      sessions |-> 0, totalSessionDuration |-> 0,
      countries |-> EmptyMap, referers |-> EmptyMap,
      hourlyActivity |-> [h \in 0..(HoursPerDay - 1) |-> 0] ]

\* Variant: the day's entry replaces the running total of its key.
AddMap_Overwrite(tot, m) ==
    [k \in DOMAIN tot \cup DOMAIN m |-> IF k \in DOMAIN m THEN m[k] ELSE tot[k]]

\* Object.entries(m).forEach(([k, count]) => tot[k] = (tot[k] || 0) + count)
AddMap(tot, m) ==
    [k \in DOMAIN tot \cup DOMAIN m |->
        (IF k \in DOMAIN tot THEN tot[k] ELSE 0) + (IF k \in DOMAIN m THEN m[k] ELSE 0)]

\* Variant: push without the includes test.
UnionInto_PushAll(acc, vs, i) == acc \o SubSeq(vs, i, Len(vs))

\* vs.forEach(v => { if (!acc.includes(v)) acc.push(v) }), from index i on
RECURSIVE UnionInto(_, _, _)
UnionInto(acc, vs, i) ==
    IF i > Len(vs) THEN acc
    ELSE UnionInto(IF Includes(acc, vs[i]) THEN acc ELSE Append(acc, vs[i]), vs, i + 1)

\* the body of `if (stats) { ... }` after the push onto dailyStats
MergeStats(totals, stats) ==
    [ pageViews |-> totals.pageViews + stats.pageViews,
      sessions |-> totals.sessions + stats.sessions,
      totalSessionDuration |-> totals.totalSessionDuration + stats.totalSessionDuration,
      uniqueVisitors |-> UnionInto(totals.uniqueVisitors, stats.uniqueVisitors, 1),
      cardHovers |-> [c \in Cards |-> totals.cardHovers[c] + stats.cardHovers[c]],
      cardClicks |-> [c \in Cards |-> totals.cardClicks[c] + stats.cardClicks[c]],
      cardHoverTime |-> [c \in Cards |-> totals.cardHoverTime[c] + stats.cardHoverTime[c]],
      countries |-> AddMap(totals.countries, stats.countries),
      referers |-> AddMap(totals.referers, stats.referers),
      hourlyActivity |->
          [h \in 0..(HoursPerDay - 1) |-> totals.hourlyActivity[h] + stats.hourlyActivity[h]] ]

\* Variant: a date without an aggregate is merged as an aggregate of zeros.
MergeDay_ZeroForMissing(acc, date, found) ==
    LET stats == IF found = <<>> THEN NewLocalStats(date) ELSE found[1]
    IN  [ totals |-> MergeStats(acc.totals, stats),
          dailyStats |-> Append(acc.dailyStats, stats) ]

\* One turn of `for (const date of dates)`: `found` is what the read of the
\* date gave (empty: nothing stored).  { date, ...stats } is the stored
\* aggregate itself, whose own date field is the one that stays.
MergeDay(acc, date, found) ==
    IF found = <<>> THEN acc
    ELSE [ totals |-> MergeStats(acc.totals, found[1]),
           dailyStats |-> Append(acc.dailyStats, found[1]) ]

NoMerge == [ totals |-> ZeroTotals, dailyStats |-> <<>> ]

----------------------------------------------------------------------------
\* analytics-get: formatSummaryResponse.  The quotients are those of the
\* rationals; a quotient by zero, which JS gives as NaN or Infinity (null once
\* serialised), is NonFinite.

\* Math.round(num / den): the nearest integer, a half going up.  For the
\* counters of FmtTotals and of the state machines (denominators below 40) the
\* double quotient rounds to the same integer as the rational one.
RoundDiv(num, den) == IF den = 0 THEN NonFinite ELSE (2 * num + den) \div (2 * den)

\* `${n}s`
Suffixed(n, unit) == << n, unit >>

AvgSessionDuration(totals) ==
    IF totals.sessions > 0
    THEN RoundDiv(totals.totalSessionDuration, totals.sessions * 1000)
    ELSE 0

TotalHovers(totals) ==
    totals.cardHovers["voice"] + totals.cardHovers["value"] + totals.cardHovers["agent"]

TotalClicks(totals) ==
    totals.cardClicks["voice"] + totals.cardClicks["value"] + totals.cardClicks["agent"]

\* Variant: the `totals.pageViews > 0` half of the guard is dropped.
BounceRate_SessionsOnly(totals) ==
    IF totals.sessions > 0
    THEN RoundDiv((totals.pageViews - TotalClicks(totals)) * 100, totals.pageViews)
    ELSE 0

\* Math.round((1 - totalClicks / pageViews) * 100) under its guard
BounceRate(totals) ==
    IF totals.sessions > 0 /\ totals.pageViews > 0
    THEN RoundDiv((totals.pageViews - TotalClicks(totals)) * 100, totals.pageViews)
    ELSE 0

\* Variant: share is the rounded fraction, not the percentage.
CardEngagement_Fraction(totals, card) ==
    [ hovers |-> totals.cardHovers[card],
      clicks |-> totals.cardClicks[card],
      avgHoverTime |-> IF totals.cardHovers[card] > 0
                       THEN RoundDiv(totals.cardHoverTime[card], totals.cardHovers[card])
                       ELSE 0,
      clickRate |-> IF totals.cardHovers[card] > 0
                    THEN RoundDiv(totals.cardClicks[card] * 100, totals.cardHovers[card])
                    ELSE 0,
      share |-> IF TotalHovers(totals) > 0
                THEN RoundDiv(totals.cardHovers[card], TotalHovers(totals))
                ELSE 0 ]

\* cardEngagement[card]
CardEngagement(totals, card) ==
    [ hovers |-> totals.cardHovers[card],
      clicks |-> totals.cardClicks[card],
      avgHoverTime |-> IF totals.cardHovers[card] > 0
                       THEN RoundDiv(totals.cardHoverTime[card], totals.cardHovers[card])
                       ELSE 0,
      clickRate |-> IF totals.cardHovers[card] > 0
                    THEN RoundDiv(totals.cardClicks[card] * 100, totals.cardHovers[card])
                    ELSE 0,
      share |-> IF TotalHovers(totals) > 0
                THEN RoundDiv(totals.cardHovers[card] * 100, TotalHovers(totals))
                ELSE 0 ]

TopN == 10

\* Object.entries(m).sort((a, b) => b[1] - a[1]).slice(0, n): the entries by
\* falling count.  Entries of equal count keep the insertion order of their
\* keys, which a map of this model does not record; they come in some order.
RECURSIVE TopEntries(_, _)
TopEntries(m, n) ==
    IF n = 0 \/ DOMAIN m = {} THEN <<>>
    ELSE LET k == CHOOSE x \in DOMAIN m : \A j \in DOMAIN m : m[j] <= m[x]
         IN  << [ key |-> k, count |-> m[k] ] >>
             \o TopEntries([j \in DOMAIN m \ {k} |-> m[j]], n - 1)

\* Math.max(...arr) over the slots lo..hi
RECURSIVE MaxOf(_, _, _)
MaxOf(arr, lo, hi) ==
    IF lo = hi THEN arr[lo]
    ELSE LET mid == (lo + hi) \div 2
             a == MaxOf(arr, lo, mid)
             b == MaxOf(arr, mid + 1, hi)
         IN  IF a >= b THEN a ELSE b

\* Variant: lastIndexOf.
IndexOf_Last(arr, v, i) ==
    IF \E h \in i..(HoursPerDay - 1) : arr[h] = v
    THEN CHOOSE h \in i..(HoursPerDay - 1) :
            arr[h] = v /\ \A g \in (h + 1)..(HoursPerDay - 1) : arr[g] # v
    ELSE -1

\* arr.indexOf(v), scanning from slot i
RECURSIVE IndexOf(_, _, _)
IndexOf(arr, v, i) ==
    IF i >= HoursPerDay THEN -1
    ELSE IF arr[i] = v THEN i
    ELSE IndexOf(arr, v, i + 1)

PeakHour(arr) == IndexOf(arr, MaxOf(arr, 0, HoursPerDay - 1), 0)

\* dailyStats.map(d => ({ date, pageViews, uniqueVisitors: length, sessions }))
DailyRow(d) ==
    [ date |-> d.date, pageViews |-> d.pageViews,
      uniqueVisitors |-> Len(d.uniqueVisitors), sessions |-> d.sessions ]

\* formatSummaryResponse, with the mode the caller gives the result; t is
\* Date.now()
FormatSummaryResponse(totals, dailyStats, range, t, mode) ==
    [ range |-> range,
      generated |-> t,
      mode |-> mode,
      overview |->
          [ pageViews |-> totals.pageViews,
            uniqueVisitors |-> Len(totals.uniqueVisitors),
            sessions |-> totals.sessions,
            avgSessionDuration |-> Suffixed(AvgSessionDuration(totals), "s"),
            bounceRate |-> BounceRate(totals) ],
      cardEngagement |-> [c \in Cards |-> CardEngagement(totals, c)],
      topCountries |-> TopEntries(totals.countries, TopN),
      topReferers |-> TopEntries(totals.referers, TopN),
      hourlyActivity |-> totals.hourlyActivity,
      peakHour |-> PeakHour(totals.hourlyActivity),
      dailyStats |-> [i \in 1..Len(dailyStats) |-> DailyRow(dailyStats[i])] ]

\* the literal returned where blobs are not configured (part_000, lines 82-98)
NoStorageBody(range, t) ==
    [ range |-> range,
      generated |-> t,
      mode |-> "production-no-storage",
      overview |->
          [ pageViews |-> 0, uniqueVisitors |-> 0, sessions |-> 0,
            avgSessionDuration |-> Suffixed(0, "s"), bounceRate |-> 0 ],
      cardEngagement |->
          [c \in Cards |->
              [ hovers |-> 0, clicks |-> 0, avgHoverTime |-> 0, clickRate |-> 0, share |-> 0 ]],
      topCountries |-> <<>>,
      topReferers |-> <<>>,
      hourlyActivity |-> [h \in 0..(HoursPerDay - 1) |-> 0],
      peakHour |-> 0,
      dailyStats |-> <<>> ]

----------------------------------------------------------------------------
\* analytics-get: the realtime window and formatRealtimeResponse.

ThirtyMinutes == 30 * MsPerMinute
FiveMinutes == 5 * MsPerMinute

StreamCap == 20
ListCap == 50

\* arr.filter(e => P(e)): the elements satisfying P, in their order
Filter(s, P(_)) ==
    LET kept == { i \in 1..Len(s) : P(s[i]) }
    IN  [k \in 1..Cardinality(kept) |->
            s[CHOOSE i \in kept : Cardinality({ j \in kept : j <= i }) = k]]

\* arr.sort((a, b) => b.timestamp - a.timestamp): by falling timestamp, events
\* of equal timestamp staying in their order
SortDesc(s) ==
    LET stamps == { <<>> \o [i \in 1..Len(s) |-> s[i].timestamp] }
        \* the place of s[i]: after the events of a later timestamp and after
        \* the events of the same timestamp that come before it
        places == { <<>> \o [i \in 1..Len(ts) |->
                              1 + Cardinality({ j \in 1..Len(ts) :
                                    ts[j] > ts[i] \/ (ts[j] = ts[i] /\ j < i) })] :
                      ts \in stamps }
        \* the one arrangement that puts every event at its place
        sorted == { <<>> \o [k \in 1..Len(place) |->
                              s[CHOOSE i \in 1..Len(place) : place[i] = k]] :
                      place \in places }
    IN  CHOOSE arr \in sorted : TRUE

\* arr.slice(0, n)
SliceFirst(s, n) == SubSeq(s, 1, IF Len(s) < n THEN Len(s) ELSE n)

\* Variant: every retained event counts as active.
ActiveVisitors_All(recentEvents, fiveMinutesAgo) ==
    { recentEvents[i].visitorHash : i \in 1..Len(recentEvents) }

\* the Set activeVisitors
ActiveVisitors(recentEvents, fiveMinutesAgo) ==
    { recentEvents[i].visitorHash :
        i \in { j \in 1..Len(recentEvents) : recentEvents[j].timestamp >= fiveMinutesAgo } }

\* number of events of kind `kind` whose card is `card`: recentX[event.card]++
\* is reported for the three cards only
CardCount(recentEvents, kind, card) ==
    Cardinality({ i \in 1..Len(recentEvents) :
                    recentEvents[i].event = kind /\ recentEvents[i].card = card })

StreamRow(e) ==
    [ event |-> e.event, card |-> e.card, timestamp |-> e.timestamp,
      country |-> e.client.country ]

\* Variant: the page views and the card activity are counted over the stream.
FormatRealtimeResponse_OverStream(recentEvents, t, fiveMinutesAgo, mode) ==
    LET stream == SliceFirst(SortDesc(recentEvents), StreamCap)
    IN  [ generated |-> t,
          mode |-> mode,
          window |-> "30m",
          activeVisitors |-> Cardinality(ActiveVisitors(recentEvents, fiveMinutesAgo)),
          pageViews |-> Cardinality({ i \in 1..Len(stream) : stream[i].event = "page_view" }),
          cardActivity |->
              [c \in Cards |->
                  [ hovers |-> CardCount(stream, "card_hover_start", c),
                    clicks |-> CardCount(stream, "card_click", c) ]],
          eventStream |-> [i \in 1..Len(stream) |-> StreamRow(stream[i])] ]

FormatRealtimeResponse(recentEvents, t, fiveMinutesAgo, mode) ==
    LET stream == SliceFirst(SortDesc(recentEvents), StreamCap)
    IN  [ generated |-> t,
          mode |-> mode,
          window |-> "30m",
          activeVisitors |-> Cardinality(ActiveVisitors(recentEvents, fiveMinutesAgo)),
          pageViews |-> Cardinality({ i \in 1..Len(recentEvents) :
                                        recentEvents[i].event = "page_view" }),
          cardActivity |->
              [c \in Cards |->
                  [ hovers |-> CardCount(recentEvents, "card_hover_start", c),
                    clicks |-> CardCount(recentEvents, "card_click", c) ]],
          eventStream |-> [i \in 1..Len(stream) |-> StreamRow(stream[i])] ]

\* `events/${today}/${prevHour}/` with prevHour = (hour - 1 + 24) % 24
PrevBucket(t) == [ date |-> DateOf(t), hour |-> (HourOf(t) - 1 + HoursPerDay) % HoursPerDay ]

\* `events/${today}/${hour}/`
CurBucket(t) == [ date |-> DateOf(t), hour |-> HourOf(t) ]

\* for (const h of [prevHour, hour])
RealtimeBuckets(t) == << PrevBucket(t), CurBucket(t) >>

----------------------------------------------------------------------------
\* The ingest handler as a state machine.  One process is one invocation of
\* exports.handler; it is suspended at each await.

\* isProduction() of analytics-track.js
isProduction(e) ==
    e.NETLIFY = "true" \/ e.CONTEXT = "production" \/ e.CONTEXT = "deploy-preview"

Env(netlify, context) ==
    [ NETLIFY |-> netlify, CONTEXT |-> context, DEPLOY_URL |-> "", URL |-> "",
      SITE_ID |-> "", NETLIFY_BLOBS_TOKEN |-> "" ]

Envs == { Env("", ""), Env("true", "production"), Env("", "dev") }

\* The locals of one invocation: the request, the eventRecord, `today`, the
\* eventKey, the stats object of updateProductionStats once it is computed, and
\* whether its catch of a failed store.get was taken.
NoReq == Req("", "", NoData, 0, <<>>, <<>>, "", "")
NoCall == [ req |-> NoReq, rec |-> <<>>, today |-> 0, eventKey |-> <<>>,
            stats |-> <<>>, readError |-> FALSE ]
NoResp == [ statusCode |-> 0, body |-> EmptyMap ]

\* The locals of the retrieval handler (the ES module analytics-get.mjs and the
\* CommonJS one run the same code from their backend branch on): the query
\* parameters, Date.now() at its start, the dates or buckets it walks with the
\* index of the next one, what it has merged or retained so far, and whether a
\* catch was taken; with them the time zone the process runs in, and the store
\* calls of each bucket scanned so far (the keys store.list returned, the keys
\* whose store.get returned, the number of store.get calls issued).
NoQuery == [ pc |-> "idle", type |-> "", range |-> "", limit |-> 0, t0 |-> 0, zone |-> UTC,
             dates |-> <<>>, buckets |-> <<>>, next |-> 1,
             acc |-> NoMerge, recentEvents |-> <<>>, readError |-> FALSE,
             scans |-> <<>> ]

\* store.get(key, {type: 'json'}) as an option: <<>> when the key is absent
Lookup(m, k) == IF k \in DOMAIN m THEN << m[k] >> ELSE <<>>

\* store.setJSON(key, value)
Store(m, k, v) == [x \in DOMAIN m \cup {k} |-> IF x = k THEN v ELSE m[x]]

\* Array.prototype.slice(-n)
SliceLast(s, n) == IF Len(s) > n THEN SubSeq(s, Len(s) - n + 1, Len(s)) ELSE s

LocalCap == 1000

\* A new invocation takes the lowest slot that holds no invocation in flight.
Idle(p) ==
    /\ pc[p] \in {"idle", "done"}
    /\ \A q \in Procs : q < p => pc[q] \notin {"idle", "done"}

Init ==
    /\ now \in Instants
    /\ env \in Envs
    /\ blobEvents = EmptyMap
    /\ blobStats = EmptyMap
    /\ localStore = [ events |-> <<>>, stats |-> EmptyMap ]
    /\ pc = [p \in Procs |-> "idle"]
    /\ call = [p \in Procs |-> NoCall]
    /\ resp = [p \in Procs |-> NoResp]
    /\ nextId = 1
    /\ started = 0
    /\ foldIn = <<>>
    /\ foldLog = <<>>
    /\ foldAgg = <<>>
    /\ foldLocal = <<>>
    /\ qry = NoQuery
    /\ report = NoResp

\* the clock moves on
Tick ==
    /\ \E t \in Instants : t > now /\ now' = t
    /\ UNCHANGED <<env, blobEvents, blobStats, localStore, pc, call, resp, nextId, started>>
    /\ UNCHANGED <<foldVars, qryVars>>

\* lines 66-77: the 400 return
Reject(p, req) ==
    /\ Idle(p)
    /\ started < MaxIngests
    /\ InvalidEvent(req)
    /\ started' = started + 1
    /\ pc' = [pc EXCEPT ![p] = "done"]
    /\ call' = [call EXCEPT ![p] = [NoCall EXCEPT !.req = req]]
    /\ resp' = [resp EXCEPT ![p] =
                  [ statusCode |-> 400, body |-> [ error |-> "Invalid event type" ] ]]
    /\ UNCHANGED <<now, env, blobEvents, blobStats, localStore, nextId>>
    /\ UNCHANGED <<foldVars, qryVars>>

\* lines 79-116: build the record and the key, issue store.setJSON(eventKey)
BeginProduction(p, req) ==
    /\ Idle(p)
    /\ started < MaxIngests
    /\ ~InvalidEvent(req)
    /\ isProduction(env)
    /\ started' = started + 1
    /\ nextId' = nextId + 1
    /\ call' = [call EXCEPT ![p] =
                  [ req |-> req, rec |-> EventRecord(req, now), today |-> DateOf(now),
                    eventKey |-> EventKey(now, nextId), stats |-> <<>>,
                    readError |-> FALSE ]]
    /\ pc' = [pc EXCEPT ![p] = "setEvent"]
    /\ resp' = [resp EXCEPT ![p] = NoResp]
    /\ UNCHANGED <<now, env, blobEvents, blobStats, localStore>>
    /\ UNCHANGED <<foldVars, qryVars>>

\* line 116 resolves
SetEventOk(p) ==
    /\ pc[p] = "setEvent"
    /\ blobEvents' = Store(blobEvents, call[p].eventKey, call[p].rec)
    /\ pc' = [pc EXCEPT ![p] = "getStats"]
    /\ UNCHANGED <<now, env, blobStats, localStore, call, resp, nextId, started>>
    /\ UNCHANGED <<foldVars, qryVars>>

\* the catch of the handler, lines 201-208
InternalError == [ statusCode |-> 500, body |-> [ error |-> "Internal error" ] ]

\* Variant: the rejection is swallowed and the handler carries on.
OnRawWriteError_Swallow == "continue"

\* Where the handler goes when `await store.setJSON(eventKey, ...)` rejects:
\* the await is directly inside the handler's try, so to its catch.
OnRawWriteError == "catch"

\* line 116 rejects
SetEventFail(p) ==
    /\ pc[p] = "setEvent"
    /\ IF OnRawWriteError = "catch"
       THEN /\ pc' = [pc EXCEPT ![p] = "done"]
            /\ call' = [call EXCEPT ![p] = NoCall]
            /\ resp' = [resp EXCEPT ![p] = InternalError]
       ELSE /\ pc' = [pc EXCEPT ![p] = "getStats"]
            /\ UNCHANGED <<call, resp>>
    /\ UNCHANGED <<now, env, blobEvents, blobStats, localStore, nextId, started>>
    /\ UNCHANGED <<foldVars, qryVars>>

\* Variant: the aggregate is chosen by the event's own timestamp.
StatsDate_OfEvent(c) == DateOf(c.rec.timestamp)

\* line 119 and line 213: the date whose aggregate the call updates
StatsDate(c) == c.today

\* what updateProductionStats computes once store.get has settled
AfterGet(p, found, failed) ==
    /\ call' = [call EXCEPT
                  ![p].stats =
                      << UpdateProductionStats(found, call[p].rec, StatsDate(call[p]), now) >>,
                  ![p].readError = failed]
    /\ pc' = [pc EXCEPT ![p] = "setStats"]
    /\ UNCHANGED <<now, env, blobEvents, blobStats, localStore, resp, nextId, started>>
    /\ UNCHANGED <<foldVars, qryVars>>

\* line 217 resolves; lines 222-291 run up to the await of setJSON
GetStatsOk(p) ==
    /\ pc[p] = "getStats"
    /\ AfterGet(p, Lookup(blobStats, StatsDate(call[p])), FALSE)

\* line 217 rejects: the catch of lines 218-220 makes stats null
GetStatsFail(p) ==
    /\ pc[p] = "getStats"
    /\ AfterGet(p, <<>>, TRUE)

\* Variant: the write folds the event into whatever is stored at write time.
StatsWritten_Refolded(c, stored) ==
    UpdateProductionStats(stored, c.rec, c.today, c.stats[1].lastUpdated)

\* line 291: the value store.setJSON(statsKey, stats) writes is the stats object
\* the call computed from its own read
StatsWritten(c, stored) == c.stats[1]

\* line 291 resolves, the handler returns 200 (lines 121-125)
SetStatsOk(p) ==
    /\ pc[p] = "setStats"
    /\ blobStats' = Store(blobStats, StatsDate(call[p]),
                          JsonStats(StatsWritten(call[p],
                                                 Lookup(blobStats, StatsDate(call[p])))))
    /\ pc' = [pc EXCEPT ![p] = "done"]
    /\ call' = [call EXCEPT ![p] = NoCall]
    /\ resp' = [resp EXCEPT ![p] =
                  [ statusCode |-> 200,
                    body |-> [ success |-> TRUE, mode |-> "production",
                               eventKey |-> call[p].eventKey ] ]]
    /\ UNCHANGED <<now, env, blobEvents, localStore, nextId, started>>
    /\ UNCHANGED <<foldVars, qryVars>>

\* line 291 rejects
SetStatsFail(p) ==
    /\ pc[p] = "setStats"
    /\ pc' = [pc EXCEPT ![p] = "done"]
    /\ call' = [call EXCEPT ![p] = NoCall]
    /\ resp' = [resp EXCEPT ![p] = InternalError]
    /\ UNCHANGED <<now, env, blobEvents, blobStats, localStore, nextId, started>>
    /\ UNCHANGED <<foldVars, qryVars>>

\* lines 127-199: the local branch, which has no await
LocalIngest(store, req, t) ==
    LET rec == EventRecord(req, t)
        today == DateOf(t)
        pushed == Append(store.events, rec)
    IN  [ events |-> IF Len(pushed) > LocalCap THEN SliceLast(pushed, LocalCap) ELSE pushed,
          stats |-> Store(store.stats, today,
                          UpdateLocalStats(Lookup(store.stats, today), req, today, t)) ]

IngestLocal(p, req) ==
    /\ Idle(p)
    /\ started < MaxIngests
    /\ ~InvalidEvent(req)
    /\ ~isProduction(env)
    /\ started' = started + 1
    /\ localStore' = LocalIngest(localStore, req, now)
    /\ call' = [call EXCEPT ![p] = [NoCall EXCEPT !.req = req]]
    /\ pc' = [pc EXCEPT ![p] = "done"]
    /\ resp' = [resp EXCEPT ![p] =
                  [ statusCode |-> 200,
                    body |-> [ success |-> TRUE, mode |-> "local",
                               stored |-> Len(localStore'.events) ] ]]
    /\ UNCHANGED <<now, env, blobEvents, blobStats, nextId>>
    /\ UNCHANGED <<foldVars, qryVars>>

----------------------------------------------------------------------------
\* The requests the handler is driven with.

T_Day0_22 == At(0, 22, 0)

BadRequests ==
    ReqsOf({"", "bogus"}, {""}, {NoData}, {0}, {IpA}, {UaShort}, {""}, {""})

SysRequests ==
    BadRequests
    \cup ReqsOf({"page_view"}, {""}, {NoData}, {0}, {IpA}, {UaShort}, {""}, {""})
    \cup ReqsOf({"page_view"}, {""}, {NoData}, {T_Day0_22}, {IpB}, {UaShort}, {UrlA}, {"US"})
    \cup ReqsOf({"card_hover_start"}, {"voice"}, {NoData}, {0}, {IpA}, {UaShort}, {""}, {""})
    \cup ReqsOf({"card_hover_end"}, {"voice"}, {Dur(1500)}, {0}, {IpA}, {UaShort}, {""}, {""})

Next ==
    \/ Tick
    \/ \E p \in Procs :
        \/ \E req \in SysRequests : Reject(p, req)
        \/ \E req \in SysRequests : BeginProduction(p, req)
        \/ \E req \in SysRequests : IngestLocal(p, req)
        \/ SetEventOk(p)
        \/ SetEventFail(p)
        \/ GetStatsOk(p)
        \/ GetStatsFail(p)
        \/ SetStatsOk(p)
        \/ SetStatsFail(p)

Spec == Init /\ [][Next]_vars

\* The same handler when invocations do not overlap and no store call fails.
Quiet == \A p \in Procs : pc[p] \in {"idle", "done"}

SeqRequests ==
    SysRequests
    \cup ReqsOf({"session_start", "page_exit"}, {""}, {NoData}, {0}, {IpA}, {UaShort}, {""}, {""})
    \cup ReqsOf({"session_end"}, {""}, {Dur(700)}, {0}, {IpA}, {UaShort}, {BadUrl}, {""})
    \cup ReqsOf({"card_click"}, {"voice", "other"}, {NoData}, {0}, {IpA}, {UaShort}, {""}, {""})

SeqNext ==
    \/ Tick
    \/ \E p \in Procs :
        \/ \E req \in SeqRequests : Quiet /\ Reject(p, req)
        \/ \E req \in SeqRequests : Quiet /\ BeginProduction(p, req)
        \/ \E req \in SeqRequests : Quiet /\ IngestLocal(p, req)
        \/ SetEventOk(p)
        \/ GetStatsOk(p)
        \/ SetStatsOk(p)

SeqSpec == Init /\ [][SeqNext]_vars

\* The handler driven with cards outside voice/value/agent (none, a name no
\* object has, a name every object inherits) and with a referer that is no
\* URL, one invocation at a time.
CardRequests ==
    ReqsOf({"card_hover_start"}, {NullV, "other", "constructor", "voice"}, {NoData}, {0},
           {IpA}, {UaShort}, {""}, {""})
    \cup ReqsOf({"card_click"}, {"other", "constructor"}, {NoData}, {0},
                {IpA}, {UaShort}, {""}, {""})
    \cup ReqsOf({"card_hover_end"}, {"other", "constructor"}, {Dur(1500)}, {0},
                {IpA}, {UaShort}, {""}, {""})
    \cup ReqsOf({"page_view"}, {""}, {NoData}, {0}, {IpA}, {UaShort}, {BadUrl}, {""})

CardNext ==
    \/ Tick
    \/ \E p \in Procs :
        \/ \E req \in CardRequests : Quiet /\ BeginProduction(p, req)
        \/ \E req \in CardRequests : Quiet /\ IngestLocal(p, req)
        \/ SetEventOk(p)
        \/ GetStatsOk(p)
        \/ SetStatsOk(p)

CardSpec == Init /\ [][CardNext]_vars

----------------------------------------------------------------------------
\* The fold harness: the two fold functions applied to one sequence of
\* accepted requests, from a chosen starting aggregate.

FoldDay == DateOf(At(0, 23, 50))

FoldRequests ==
    ReqsOf({"page_view"}, {""}, {NoData}, {0}, {IpA, IpB}, {UaShort}, {""}, {""})
    \cup ReqsOf({"page_view"}, {""}, {NoData}, {0}, {IpA}, {UaOther}, {""}, {""})
    \cup ReqsOf({"session_start"}, {""}, {NoData}, {0}, {IpA}, {UaShort}, {""}, {""})
    \cup ReqsOf({"card_hover_start"}, {"voice", "agent", "other"}, {NoData}, {0},
                {IpA}, {UaShort}, {""}, {""})
    \cup ReqsOf({"card_click"}, {"voice", "other"}, {NoData}, {0}, {IpA}, {UaShort}, {""}, {""})
    \cup ReqsOf({"card_hover_end"}, {"voice"}, {NoData, Dur(1500), Dur(700)}, {0},
                {IpA}, {UaShort}, {""}, {""})
    \cup ReqsOf({"card_hover_end"}, {"other"}, {Dur(1500)}, {0}, {IpA}, {UaShort}, {""}, {""})
    \cup ReqsOf({"session_end"}, {""}, {NoData, Dur(700)}, {0}, {IpA}, {UaShort}, {""}, {""})
    \cup ReqsOf(VALID_EVENTS \ {"page_view", "session_start", "session_end", "card_click",
                                "card_hover_start", "card_hover_end"},
                {""}, {NoData}, {0}, {IpA}, {UaShort}, {""}, {""})
    \cup ReqsOf({"page_exit"}, {""}, {NoData}, {0}, {IpA}, {UaShort},
                {UrlA, UrlC, BadUrl}, {""})
    \cup ReqsOf({"page_exit"}, {""}, {NoData}, {0, T_Day0_22}, {IpA}, {UaShort}, {""}, {"US"})

\* An aggregate that earlier events have already been folded into.
BusyStats ==
    [ NewStats(FoldDay, At(0, 22, 0)) EXCEPT
        !.pageViews = 2,
        !.uniqueVisitors = << hashString(IpA \o UaShort) >>,
        !.cardHovers = [ZeroCards EXCEPT !["voice"] = 1],
        !.cardHoverTime = [ZeroCards EXCEPT !["voice"] = 700],
        !.sessions = 1,
        !.countries = Bump(EmptyMap, "detected"),
        !.referers = Bump(EmptyMap, "badseed.xyz"),
        !.hourlyActivity = [h \in 0..(HoursPerDay - 1) |-> IF h = 22 THEN 3 ELSE 0] ]

\* the same aggregate as the local branch keeps it
LocalOf(stats) == [k \in DOMAIN stats \ {"lastUpdated"} |-> stats[k]]

FoldStarts == { <<>>, << BusyStats >> }

FoldInit ==
    /\ now \in Instants
    /\ env = Env("", "")
    /\ blobEvents = EmptyMap
    /\ blobStats = EmptyMap
    /\ localStore = [ events |-> <<>>, stats |-> EmptyMap ]
    /\ pc = [p \in Procs |-> "idle"]
    /\ call = [p \in Procs |-> NoCall]
    /\ resp = [p \in Procs |-> NoResp]
    /\ nextId = 1
    /\ started = 0
    /\ foldIn \in FoldStarts
    /\ foldLog = <<>>
    /\ foldAgg = foldIn
    /\ foldLocal = IF foldIn = <<>> THEN <<>> ELSE << LocalOf(foldIn[1]) >>
    /\ qry = NoQuery
    /\ report = NoResp

\* one accepted request goes through both folds
FoldStep(req) ==
    /\ Len(foldLog) < MaxFold
    /\ ~InvalidEvent(req)
    /\ foldLog' = Append(foldLog, [ req |-> req, t |-> now ])
    /\ foldAgg' = << JsonStats(UpdateProductionStats(foldAgg, EventRecord(req, now),
                                                      FoldDay, now)) >>
    /\ foldLocal' = << UpdateLocalStats(foldLocal, req, FoldDay, now) >>
    /\ UNCHANGED foldIn
    /\ UNCHANGED <<sysVars, qryVars>>

FoldNext == \E req \in FoldRequests : FoldStep(req)

FoldSpec == FoldInit /\ [][FoldNext]_vars

----------------------------------------------------------------------------
\* The retrieval handlers as a state machine.  One query is in flight at a
\* time; a query on the durable store is suspended at each store call, a query
\* on localStore has no await.

\* isProduction() of the CommonJS retrieval handler; an unset variable is ""
RetrievalIsProduction(e) ==
    \E v \in { e.NETLIFY, e.CONTEXT, e.DEPLOY_URL, e.URL, e.SITE_ID } : v # ""

\* siteID && token
HasBlobCredentials(e) == e.SITE_ID # "" /\ e.NETLIFY_BLOBS_TOKEN # ""

Handlers == { "mjs", "cjs" }

\* The query reads the blob store: the ES module always does (it runs where
\* the platform provides the store), the CommonJS handler in production with
\* credentials.
OnBlobs(h, e) ==
    IF h = "mjs" THEN isProduction(e)
    ELSE RetrievalIsProduction(e) /\ HasBlobCredentials(e)

OnLocal(h, e) == h = "cjs" /\ ~RetrievalIsProduction(e)

QueryIdle == qry.pc \in {"idle", "done"}

Ok(body) == [ statusCode |-> 200, body |-> body ]

\* getSummaryStats / getProductionSummary up to the first store.get
BeginSummary(h, range) ==
    /\ QueryIdle
    /\ OnBlobs(h, env)
    /\ qry' = [ NoQuery EXCEPT
                  !.pc = "summary", !.type = "summary",
                  !.range = RangeOf(range), !.t0 = now,
                  !.dates = SummaryDates(NoQuery.zone, now, RangeOf(range)) ]
    /\ report' = NoResp
    /\ UNCHANGED <<sysVars, foldVars>>

\* one turn of the loop once store.get has settled; after the last date the
\* totals are formatted and returned
SummaryRead(found, failed) ==
    LET acc == MergeDay(qry.acc, qry.dates[qry.next], found)
    IN  /\ qry' = [ qry EXCEPT
                      !.acc = acc, !.next = @ + 1,
                      !.readError = @ \/ failed,
                      !.pc = IF qry.next = Len(qry.dates) THEN "done" ELSE "summary" ]
        /\ report' = IF qry.next = Len(qry.dates)
                     THEN Ok(FormatSummaryResponse(acc.totals, acc.dailyStats, qry.range,
                                                   now, "production-blobs"))
                     ELSE report
        /\ UNCHANGED <<sysVars, foldVars>>

\* store.get(`stats/${date}`) resolves
SummaryGetOk ==
    /\ qry.pc = "summary"
    /\ SummaryRead(Lookup(blobStats, qry.dates[qry.next]), FALSE)

\* store.get rejects: `catch (e) { /* Date not found, skip */ }`
SummaryGetFail ==
    /\ qry.pc = "summary"
    /\ SummaryRead(<<>>, TRUE)

\* the loop of getLocalSummary from date index i on
RECURSIVE MergeDates(_, _, _, _)
MergeDates(acc, dates, i, stats) ==
    IF i > Len(dates) THEN acc
    ELSE MergeDates(MergeDay(acc, dates[i], Lookup(stats, dates[i])), dates, i + 1, stats)

\* getLocalSummary
LocalSummary(h, range) ==
    /\ QueryIdle
    /\ OnLocal(h, env)
    /\ LET dates == SummaryDates(NoQuery.zone, now, RangeOf(range))
           acc == MergeDates(NoMerge, dates, 1, localStore.stats)
       IN  /\ qry' = [ NoQuery EXCEPT
                         !.pc = "done", !.type = "summary",
                         !.range = RangeOf(range), !.t0 = now, !.dates = dates,
                         !.next = Len(dates) + 1, !.acc = acc ]
           /\ report' = Ok(FormatSummaryResponse(acc.totals, acc.dailyStats, RangeOf(range),
                                                 now, "local"))
    /\ UNCHANGED <<sysVars, foldVars>>

QueryTypes == { "summary", "realtime", "events" }

\* params.type || 'summary'
TypeOf(param) == IF param = "" THEN "summary" ELSE param

\* production without blob credentials: the empty report, whatever the type
NoStorage(h, type, range) ==
    /\ QueryIdle
    /\ h = "cjs"
    /\ RetrievalIsProduction(env)
    /\ ~HasBlobCredentials(env)
    /\ qry' = [ NoQuery EXCEPT
                  !.pc = "done", !.type = TypeOf(type),
                  !.range = RangeOf(range), !.t0 = now ]
    /\ report' = Ok(NoStorageBody(RangeOf(range), now))
    /\ UNCHANGED <<sysVars, foldVars>>

\* getRealtimeStats / getProductionRealtime up to the first store.list
BeginRealtime(h) ==
    /\ QueryIdle
    /\ OnBlobs(h, env)
    /\ qry' = [ NoQuery EXCEPT
                  !.pc = "realtime", !.type = "realtime", !.t0 = now,
                  !.buckets = RealtimeBuckets(now) ]
    /\ report' = NoResp
    /\ UNCHANGED <<sysVars, foldVars>>

\* the keys of a bucket
BucketKeys(b) == { k \in DOMAIN blobEvents : k.date = b.date /\ k.hour = b.hour }

\* the keys ks in the order they were written
WriteOrder(ks) ==
    [i \in 1..Cardinality(ks) |->
        CHOOSE k \in ks : Cardinality({ j \in ks : j.id[2] <= k.id[2] }) = i]

\* Array.prototype.reverse
Reverse(s) == [i \in 1..Len(s) |-> s[Len(s) + 1 - i]]

\* store.list({ prefix }): the keys in an order the store chooses; every
\* order for up to MaxPermuted keys, the write order and its reverse for more
Listings(ks) ==
    IF Cardinality(ks) <= MaxPermuted
    THEN { l \in [1..Cardinality(ks) -> ks] :
             \A i, j \in 1..Cardinality(ks) : l[i] = l[j] => i = j }
    ELSE { WriteOrder(ks), Reverse(WriteOrder(ks)) }

\* Variant: every listed key is fetched.
Fetched_All(listing) == listing

\* (blobs || []).slice(-50): the keys getRealtimeStats goes on to fetch
Fetched(listing) == SliceLast(listing, ListCap)

\* the events pushed from one bucket: of the listed keys that were fetched
\* (the last ListCap, or fewer where a store call threw), those inside the
\* 30-minute window
Retained(fetched, thirtyMinutesAgo) ==
    Filter([i \in 1..Len(fetched) |-> blobEvents[fetched[i]]],
           LAMBDA e : e.timestamp >= thirtyMinutesAgo)

\* one turn of `for (const h of [prevHour, hour])`; after the second bucket the
\* retained events are formatted and returned
RealtimeTurn(listed, fetched, gets, failed) ==
    LET events == qry.recentEvents \o Retained(fetched, qry.t0 - ThirtyMinutes)
    IN  /\ qry' = [ qry EXCEPT
                      !.recentEvents = events, !.next = @ + 1,
                      !.readError = @ \/ failed,
                      !.scans = Append(@, [ listed |-> listed, fetched |-> fetched,
                                            gets |-> gets ]),
                      !.pc = IF qry.next = Len(qry.buckets) THEN "done" ELSE "realtime" ]
        /\ report' = IF qry.next = Len(qry.buckets)
                     THEN Ok(FormatRealtimeResponse(events, qry.t0, qry.t0 - FiveMinutes,
                                                    "production-blobs"))
                     ELSE report
        /\ UNCHANGED <<sysVars, foldVars>>

\* store.list and every store.get of the bucket resolve
RealtimeScanOk ==
    /\ qry.pc = "realtime"
    /\ \E l \in Listings(BucketKeys(qry.buckets[qry.next])) :
          RealtimeTurn(l, Fetched(l), Len(Fetched(l)), FALSE)

\* store.list rejects, or the store.get after n fetched keys does:
\* `catch (e) { /* Continue */ }` goes on to the next bucket
RealtimeScanFail ==
    /\ qry.pc = "realtime"
    /\ \/ RealtimeTurn(<<>>, <<>>, 0, TRUE)
       \/ \E l \in Listings(BucketKeys(qry.buckets[qry.next])) :
             \E n \in 0..(Len(Fetched(l)) - 1) :
                 RealtimeTurn(l, SubSeq(Fetched(l), 1, n), n + 1, TRUE)

\* getLocalRealtime
LocalRealtime(h) ==
    /\ QueryIdle
    /\ OnLocal(h, env)
    /\ LET events == Filter(localStore.events, LAMBDA e : e.timestamp >= now - ThirtyMinutes)
       IN  /\ qry' = [ NoQuery EXCEPT
                         !.pc = "done", !.type = "realtime", !.t0 = now,
                         !.recentEvents = events ]
           /\ report' = Ok(FormatRealtimeResponse(events, now, now - FiveMinutes, "local"))
    /\ UNCHANGED <<sysVars, foldVars>>

DefaultLimit == 100

\* parseInt(params.limit || '100')
LimitOf(param) ==
    CASE param = "" -> DefaultLimit
      [] param = "1" -> 1
      [] param = "2" -> 2

\* getLocalEvents: Array.prototype.sort sorts store.events itself
LocalEvents(h, limit) ==
    /\ QueryIdle
    /\ OnLocal(h, env)
    /\ LET sorted == SortDesc(localStore.events)
           events == SliceFirst(sorted, LimitOf(limit))
       IN  /\ localStore' = [localStore EXCEPT !.events = sorted]
           /\ qry' = [ NoQuery EXCEPT
                         !.pc = "done", !.type = "events", !.limit = LimitOf(limit),
                         !.t0 = now ]
           /\ report' = Ok([ generated |-> now, mode |-> "local",
                             count |-> Len(events), events |-> events ])
    /\ UNCHANGED <<now, env, blobEvents, blobStats, pc, call, resp, nextId, started>>
    /\ UNCHANGED foldVars

\* no branch of the handler took the type: the 400 return
InvalidType(h, type) ==
    /\ QueryIdle
    /\ OnBlobs(h, env) \/ OnLocal(h, env)
    /\ TypeOf(type) \notin QueryTypes
    /\ qry' = [ NoQuery EXCEPT !.pc = "done", !.type = TypeOf(type), !.t0 = now ]
    /\ report' = [ statusCode |-> 400, body |-> [ error |-> "Invalid type" ] ]
    /\ UNCHANGED <<sysVars, foldVars>>

\* Variant: the hour loop runs from 0 up to 23.
EventsBuckets_Ascending(t) ==
    [i \in 1..(2 * HoursPerDay) |->
        [ date |-> IF i <= HoursPerDay THEN DateOf(t) ELSE DateOf(t - MsPerDay),
          hour |-> (i - 1) % HoursPerDay ]]

\* the buckets getRecentEvents / getProductionEvents may scan, in scan order:
\* hours 23 down to 0 of today, then of yesterday
EventsBuckets(t) ==
    [i \in 1..(2 * HoursPerDay) |->
        [ date |-> IF i <= HoursPerDay THEN DateOf(t) ELSE DateOf(t - MsPerDay),
          hour |-> (HoursPerDay - 1) - ((i - 1) % HoursPerDay) ]]

\* getRecentEvents / getProductionEvents up to the first store.list
BeginEvents(h, limit) ==
    /\ QueryIdle
    /\ OnBlobs(h, env)
    /\ qry' = [ NoQuery EXCEPT
                  !.pc = "events", !.type = "events", !.limit = LimitOf(limit),
                  !.t0 = now, !.buckets = EventsBuckets(now) ]
    /\ report' = NoResp
    /\ UNCHANGED <<sysVars, foldVars>>

\* Variant: the loop over a bucket's keys has no break.
EventsFetched_NoBreak(rev, room) == rev

\* `if (events.length >= limit) break` ahead of every store.get: of the
\* reversed listing, the keys fetched while room is left
EventsFetched(rev, room) == SliceFirst(rev, room)

\* one turn of the hour loop; the loops end once limit events are collected
\* or after the last bucket, and the events are sorted and returned
EventsTurn(listed, fetched, gets, failed) ==
    LET events == qry.recentEvents \o [i \in 1..Len(fetched) |-> blobEvents[fetched[i]]]
        finished == Len(events) >= qry.limit \/ qry.next = Len(qry.buckets)
    IN  /\ qry' = [ qry EXCEPT
                      !.recentEvents = events, !.next = @ + 1,
                      !.readError = @ \/ failed,
                      !.scans = Append(@, [ listed |-> listed, fetched |-> fetched,
                                            gets |-> gets ]),
                      !.pc = IF finished THEN "done" ELSE "events" ]
        /\ report' = IF finished
                     THEN Ok([ generated |-> now, mode |-> "production-blobs",
                               count |-> Len(events), events |-> SortDesc(events) ])
                     ELSE report
        /\ UNCHANGED <<sysVars, foldVars>>

\* store.list and every store.get of the bucket resolve
EventsScanOk ==
    /\ qry.pc = "events"
    /\ \E l \in Listings(BucketKeys(qry.buckets[qry.next])) :
          LET fetched == EventsFetched(Reverse(l), qry.limit - Len(qry.recentEvents))
          IN  EventsTurn(l, fetched, Len(fetched), FALSE)

\* store.list rejects, or the store.get after n fetched keys does (the first
\* or the last of the bucket): `catch (e) { /* Continue */ }` goes on to the
\* next hour
EventsScanFail ==
    /\ qry.pc = "events"
    /\ \/ EventsTurn(<<>>, <<>>, 0, TRUE)
       \/ \E l \in Listings(BucketKeys(qry.buckets[qry.next])) :
             LET fetched == EventsFetched(Reverse(l), qry.limit - Len(qry.recentEvents))
             IN  \E n \in { 0, Len(fetched) - 1 } \cap (0..(Len(fetched) - 1)) :
                     EventsTurn(l, SubSeq(fetched, 1, n), n + 1, TRUE)

\* the routing of the retrieval handler on the type parameter
Retrieve(h, type, range, limit) ==
    \/ NoStorage(h, type, range)
    \/ TypeOf(type) = "summary" /\ BeginSummary(h, range)
    \/ TypeOf(type) = "summary" /\ LocalSummary(h, range)
    \/ TypeOf(type) = "realtime" /\ BeginRealtime(h)
    \/ TypeOf(type) = "realtime" /\ LocalRealtime(h)
    \/ TypeOf(type) = "events" /\ BeginEvents(h, limit)
    \/ TypeOf(type) = "events" /\ LocalEvents(h, limit)
    \/ InvalidType(h, type)

\* The environments of the query model: nothing set (in-memory store on both
\* sides), Netlify with blob credentials, and a CONTEXT that only the retrieval
\* handler takes for production.
QryEnvs ==
    { Env("", ""),
      [ Env("true", "production") EXCEPT !.SITE_ID = "site", !.NETLIFY_BLOBS_TOKEN = "token" ],
      Env("", "dev") }

QryRequests == SysRequests \ BadRequests

QryRanges == { "", "1d", "7d", "30d" }

QryLimits == { "", "1" }

QryInit ==
    /\ now \in Instants
    /\ env \in QryEnvs
    /\ blobEvents = EmptyMap
    /\ blobStats = EmptyMap
    /\ localStore = [ events |-> <<>>, stats |-> EmptyMap ]
    /\ pc = [p \in Procs |-> "idle"]
    /\ call = [p \in Procs |-> NoCall]
    /\ resp = [p \in Procs |-> NoResp]
    /\ nextId = 1
    /\ started = 0
    /\ foldIn = <<>>
    /\ foldLog = <<>>
    /\ foldAgg = <<>>
    /\ foldLocal = <<>>
    /\ qry = NoQuery
    /\ report = NoResp

\* the caller has taken the response of the query
Taken ==
    /\ qry.pc = "done"
    /\ qry' = NoQuery
    /\ report' = NoResp
    /\ UNCHANGED <<sysVars, foldVars>>

\* Calls that do not overlap: an ingest or a query begins when no other call
\* is in flight, an ingest once the response of the last query is taken.  The
\* store calls of an ingest succeed, those of a query may fail.
Calm == Quiet /\ qry.pc = "idle"

QryNext ==
    \/ Tick
    \/ \E p \in Procs :
        \/ \E req \in QryRequests : Calm /\ BeginProduction(p, req)
        \/ \E req \in QryRequests : Calm /\ IngestLocal(p, req)
        \/ SetEventOk(p)
        \/ GetStatsOk(p)
        \/ SetStatsOk(p)
    \/ \E h \in Handlers :
        \/ \E range \in QryRanges : Quiet /\ BeginSummary(h, range)
        \/ \E range \in QryRanges : Quiet /\ LocalSummary(h, range)
        \/ \E type \in QueryTypes, range \in QryRanges : Quiet /\ NoStorage(h, type, range)
        \/ Quiet /\ BeginRealtime(h)
        \/ Quiet /\ LocalRealtime(h)
        \/ \E limit \in QryLimits : Quiet /\ LocalEvents(h, limit)
    \/ SummaryGetOk
    \/ SummaryGetFail
    \/ RealtimeScanOk
    \/ RealtimeScanFail
    \/ Taken

QrySpec == QryInit /\ [][QryNext]_vars

----------------------------------------------------------------------------
\* The harness of the pure parts of retrieval: the calendar window, the
\* summary formatter and the realtime formatter, each applied to inputs drawn
\* from bounded sets.

MaxRecent == 4

\* Zones: UTC, a constant offset, a zone whose clocks go forward an hour at
\* 01:00 UTC of day 0 (UTC+1 to UTC+2), and one whose clocks go back an hour at
\* 06:00 UTC of day 0 (UTC-4 to UTC-5).
Zones ==
    { UTC,
      Zone(2 * MsPerHour, 0, 2 * MsPerHour),
      Zone(MsPerHour, At(0, 1, 0), 2 * MsPerHour),
      Zone(-4 * MsPerHour, At(0, 6, 0), -5 * MsPerHour) }

\* Merged totals: a few values of every field the formatter reads.
FmtTotals ==
    { [ ZeroTotals EXCEPT
          !.pageViews = pv, !.sessions = se, !.totalSessionDuration = du,
          !.cardHovers = [ZeroCards EXCEPT !["voice"] = hv, !["value"] = hl],
          !.cardClicks = [ZeroCards EXCEPT !["voice"] = cv],
          !.cardHoverTime = [ZeroCards EXCEPT !["voice"] = ht],
          !.hourlyActivity = [h \in 0..(HoursPerDay - 1) |->
                                 IF h = 0 THEN a ELSE IF h = 5 THEN b
                                 ELSE IF h = 23 THEN c ELSE 0] ] :
        pv \in 0..2, se \in 0..2, du \in {0, 1499, 1500},
        hv \in 0..2, hl \in 0..1, cv \in 0..3, ht \in {0, 1500},
        a \in 0..2, b \in 0..1, c \in 0..2 }

\* Event records as the tracker builds them, of two visitors, with their own
\* timestamps 1, 2 and 10 minutes before t.
FmtEvents(t) ==
    { EventRecord(Req(ev.kind, ev.card, NoData, t - m * MsPerMinute, ip, UaShort, "", ""), t) :
        ev \in { [kind |-> "page_view", card |-> ""],
                 [kind |-> "card_hover_start", card |-> "voice"] },
        m \in {1, 2, 10},
        ip \in {IpA, IpB} }

FmtInit ==
    /\ now \in Instants
    /\ env = Env("", "")
    /\ blobEvents = EmptyMap
    /\ blobStats = EmptyMap
    /\ localStore = [ events |-> <<>>, stats |-> EmptyMap ]
    /\ pc = [p \in Procs |-> "idle"]
    /\ call = [p \in Procs |-> NoCall]
    /\ resp = [p \in Procs |-> NoResp]
    /\ nextId = 1
    /\ started = 0
    /\ foldIn = <<>>
    /\ foldLog = <<>>
    /\ foldAgg = <<>>
    /\ foldLocal = <<>>
    /\ qry = NoQuery
    /\ report = NoResp

\* the dates array of a summary in zone z
DatesStep(z, range) ==
    /\ qry = NoQuery
    /\ qry' = [ NoQuery EXCEPT
                  !.type = "dates", !.zone = z, !.range = RangeOf(range), !.t0 = now,
                  !.dates = SummaryDates(z, now, RangeOf(range)) ]
    /\ report' = NoResp
    /\ UNCHANGED <<sysVars, foldVars>>

\* formatSummaryResponse applied to merged totals
FormatStep(totals) ==
    /\ qry = NoQuery
    /\ qry' = [ NoQuery EXCEPT
                  !.type = "summary", !.range = "7d", !.t0 = now,
                  !.acc = [ totals |-> totals, dailyStats |-> <<>> ] ]
    /\ report' = Ok(FormatSummaryResponse(totals, <<>>, "7d", now, "local"))
    /\ UNCHANGED <<sysVars, foldVars>>

\* formatRealtimeResponse applied to the retained events and one more
RealtimeStep(e) ==
    /\ qry.type \in {"", "realtime"}
    /\ Len(qry.recentEvents) < MaxRecent
    /\ qry' = [ NoQuery EXCEPT
                  !.type = "realtime", !.t0 = now,
                  !.recentEvents = Append(qry.recentEvents, e) ]
    /\ report' = Ok(FormatRealtimeResponse(qry'.recentEvents, now, now - FiveMinutes, "local"))
    /\ UNCHANGED <<sysVars, foldVars>>

FmtNext ==
    \/ qry = NoQuery /\ \E z \in Zones, range \in QryRanges : DatesStep(z, range)
    \/ qry = NoQuery /\ \E totals \in FmtTotals : FormatStep(totals)
    \/ qry.type \in {"", "realtime"} /\ \E e \in FmtEvents(now) : RealtimeStep(e)

FmtSpec == FmtInit /\ [][FmtNext]_vars

----------------------------------------------------------------------------
\* The in-memory store near its cap: localStore as LocalCap - 2 or LocalCap
\* accepted page views leave it (client timestamps 1, 2, ... ms, all ingested
\* at instant 0), then further ingests.

FullReq(i) == Req("page_view", "", NoData, i, IpA, UaShort, "", "")

FullStore(n) ==
    [ events |-> [i \in 1..n |-> EventRecord(FullReq(i), 0)],
      stats |-> Store(EmptyMap, DateOf(0),
                      [ NewLocalStats(DateOf(0)) EXCEPT
                          !.pageViews = n,
                          !.uniqueVisitors = << VisitorHash(FullReq(1)) >>,
                          !.hourlyActivity[HourOf(1)] = n ]) ]

CapInit ==
    /\ now \in Instants
    /\ env = Env("", "")
    /\ blobEvents = EmptyMap
    /\ blobStats = EmptyMap
    /\ localStore \in { FullStore(LocalCap - 2), FullStore(LocalCap) }
    /\ pc = [p \in Procs |-> "idle"]
    /\ call = [p \in Procs |-> NoCall]
    /\ resp = [p \in Procs |-> NoResp]
    /\ nextId = 1
    /\ started = 0
    /\ foldIn = <<>>
    /\ foldLog = <<>>
    /\ foldAgg = <<>>
    /\ foldLocal = <<>>
    /\ qry = NoQuery
    /\ report = NoResp

CapNext ==
    \/ Tick
    \/ \E p \in Procs : \E req \in QryRequests : IngestLocal(p, req)

CapSpec == CapInit /\ [][CapNext]_vars

\* The in-memory list at its cap with queries between the ingests: the store
\* holds CapStart events when the behaviour begins, and the client timestamp
\* of each accepted event is its number in the order of ingestion.
CapStart == LocalCap - 1

Accepted == CapStart + started

TurnInit ==
    /\ now \in Instants
    /\ env = Env("", "")
    /\ blobEvents = EmptyMap
    /\ blobStats = EmptyMap
    /\ localStore = FullStore(CapStart)
    /\ pc = [p \in Procs |-> "idle"]
    /\ call = [p \in Procs |-> NoCall]
    /\ resp = [p \in Procs |-> NoResp]
    /\ nextId = 1
    /\ started = 0
    /\ foldIn = <<>>
    /\ foldLog = <<>>
    /\ foldAgg = <<>>
    /\ foldLocal = <<>>
    /\ qry = NoQuery
    /\ report = NoResp

TurnRequests ==
    ReqsOf({"page_view"}, {""}, {NoData}, {Accepted + 1}, {IpA}, {UaShort}, {""}, {""})

TurnNext ==
    \/ \E p \in Procs : \E req \in TurnRequests : Calm /\ IngestLocal(p, req)
    \/ \E h \in Handlers :
        \/ \E range \in QryRanges : Calm /\ LocalSummary(h, range)
        \/ Calm /\ LocalRealtime(h)
        \/ \E limit \in QryLimits : Calm /\ LocalEvents(h, limit)
    \/ Taken

TurnSpec == TurnInit /\ [][TurnNext]_vars

----------------------------------------------------------------------------
\* Retrieval over a busy hour: the store of the backend in use as StoredCount
\* accepted ingests of day 0 leave it, one in hour 22 and the others in hour
\* 23, more of them in one bucket than realtime fetches; then queries of every
\* type, with a type parameter that may be omitted or unknown.

StoredCount == ListCap + 3

\* the i-th ingest was served at this instant
StoredAt(i) ==
    IF i = 1 THEN At(0, 22, 59) ELSE At(0, 23, 0) + i * (MsPerMinute \div 2)

\* the client's timestamp of the i-th ingest: omitted by every fifth, else up
\* to 52 minutes before 23:50, in no order
StoredStamp(i) ==
    IF i % 5 = 0 THEN 0 ELSE At(0, 23, 50) - ((i * 7) % StoredCount) * MsPerMinute

StoredReq(i) ==
    Req(CASE i % 4 = 0 -> "page_view"
          [] i % 4 = 1 -> "card_hover_start"
          [] i % 4 = 2 -> "card_click"
          [] i % 4 = 3 -> "page_view",
        IF i % 4 \in {1, 2} THEN (IF i % 3 = 0 THEN "value" ELSE "voice") ELSE "",
        NoData, StoredStamp(i),
        IF i % 2 = 0 THEN IpA ELSE IpB, UaShort, "", "")

StoredBlobs(n) ==
    [k \in { EventKey(StoredAt(i), i) : i \in 1..n } |->
        LET i == k.id[2] IN EventRecord(StoredReq(i), StoredAt(i))]

\* the aggregate of day 0 after the first n of them, one after the other, from
\* the zero-valued literal: page views and the known cards' hovers and clicks
\* counted, the two visitors in the order of their first page view, no country
\* and no referer sent, one hourly slot a record
StoredCounts(zero, n) ==
    LET rec(i) == EventRecord(StoredReq(i), StoredAt(i))
        views == { i \in 1..n : rec(i).event = "page_view" }
        firstView(v) == CHOOSE i \in views :
                            /\ rec(i).visitorHash = v
                            /\ \A j \in views : rec(j).visitorHash = v => i <= j
        visitors == { rec(i).visitorHash : i \in views }
        count(kind, card) ==
            Cardinality({ i \in 1..n : rec(i).event = kind /\ rec(i).card = card })
    IN  [ zero EXCEPT
            !.pageViews = Cardinality(views),
            !.uniqueVisitors =
                [k \in 1..Cardinality(visitors) |->
                    CHOOSE v \in visitors :
                        Cardinality({ w \in visitors : firstView(w) <= firstView(v) }) = k],
            !.cardHovers = [c \in Cards |-> count("card_hover_start", c)],
            !.cardClicks = [c \in Cards |-> count("card_click", c)],
            !.hourlyActivity =
                [h \in 0..(HoursPerDay - 1) |->
                    Cardinality({ i \in 1..n : HourOf(rec(i).timestamp) = h })] ]

\* as updateProductionStats has written it
StoredStats(n) == StoredCounts(NewStats(DateOf(StoredAt(1)), StoredAt(n)), n)

\* global.soilAnalyticsStore as the local branch leaves it
StoredLocal(n) ==
    [ events |-> [i \in 1..n |-> EventRecord(StoredReq(i), StoredAt(i))],
      stats |-> Store(EmptyMap, DateOf(StoredAt(1)),
                      StoredCounts(NewLocalStats(DateOf(StoredAt(1))), n)) ]

ScanInit ==
    /\ now = At(0, 23, 50)
    /\ env \in QryEnvs
    /\ blobEvents = IF isProduction(env) THEN StoredBlobs(StoredCount) ELSE EmptyMap
    /\ blobStats = IF isProduction(env)
                   THEN Store(EmptyMap, DateOf(0), StoredStats(StoredCount))
                   ELSE EmptyMap
    /\ localStore = IF isProduction(env) THEN [ events |-> <<>>, stats |-> EmptyMap ]
                    ELSE StoredLocal(StoredCount)
    /\ pc = [p \in Procs |-> "idle"]
    /\ call = [p \in Procs |-> NoCall]
    /\ resp = [p \in Procs |-> NoResp]
    /\ nextId = StoredCount + 1
    /\ started = 0
    /\ foldIn = <<>>
    /\ foldLog = <<>>
    /\ foldAgg = <<>>
    /\ foldLocal = <<>>
    /\ qry = NoQuery
    /\ report = NoResp

TypeParams == QueryTypes \cup { "", "bogus" }

ScanRanges == { "", "1d", "90d" }

ScanLimits == { "", "1", "2" }

ScanNext ==
    \/ Tick
    \/ \E h \in Handlers, type \in TypeParams, range \in ScanRanges, limit \in ScanLimits :
          Calm /\ Retrieve(h, type, range, limit)
    \/ SummaryGetOk
    \/ SummaryGetFail
    \/ RealtimeScanOk
    \/ RealtimeScanFail
    \/ EventsScanOk
    \/ EventsScanFail
    \/ Taken

ScanSpec == ScanInit /\ [][ScanNext]_vars

----------------------------------------------------------------------------
\* Overlapping ingests on the blob store, none of whose store calls fails.

ConcRequests ==
    ReqsOf({"page_view"}, {""}, {NoData}, {0, T_Day0_22}, {IpA, IpB}, {UaShort}, {""}, {""})
    \cup ReqsOf({"session_start", "page_exit"}, {""}, {NoData}, {0}, {IpA}, {UaShort},
                {""}, {""})

ConcNext ==
    \/ Tick
    \/ \E p \in Procs :
        \/ \E req \in ConcRequests : BeginProduction(p, req)
        \/ SetEventOk(p)
        \/ GetStatsOk(p)
        \/ SetStatsOk(p)

ConcSpec == Init /\ [][ConcNext]_vars

----------------------------------------------------------------------------
\* Ingests whose store calls may fail, one at a time, and between them queries
\* of every type whose store calls may fail: two requests, the one-day range,
\* limit 1.

WriteRequests ==
    { Req("page_view", "", NoData, 0, IpA, UaShort, "", ""),
      Req("card_click", "voice", NoData, T_Day0_22, IpB, UaShort, "", "") }

WriteNext ==
    \/ Tick
    \/ \E p \in Procs :
        \/ \E req \in WriteRequests : Calm /\ BeginProduction(p, req)
        \/ \E req \in WriteRequests : Calm /\ IngestLocal(p, req)
        \/ SetEventOk(p)
        \/ SetEventFail(p)
        \/ GetStatsOk(p)
        \/ GetStatsFail(p)
        \/ SetStatsOk(p)
        \/ SetStatsFail(p)
    \/ \E h \in Handlers, type \in TypeParams :
          Calm /\ Retrieve(h, type, "1d", "1")
    \/ SummaryGetOk
    \/ SummaryGetFail
    \/ RealtimeScanOk
    \/ RealtimeScanFail
    \/ EventsScanOk
    \/ EventsScanFail
    \/ Taken

WriteSpec == QryInit /\ [][WriteNext]_vars

----------------------------------------------------------------------------
\* Helpers of the properties.

\* f[lo] + ... + f[hi]
RECURSIVE SumRange(_, _, _)
SumRange(f, lo, hi) ==
    IF lo > hi THEN 0
    ELSE IF lo = hi THEN f[lo]
    ELSE LET mid == (lo + hi) \div 2
         IN  SumRange(f, lo, mid) + SumRange(f, mid + 1, hi)

HourlyTotal(stats) == SumRange(stats.hourlyActivity, 0, HoursPerDay - 1)

InFlight(p) == pc[p] \in {"setEvent", "getStats", "setStats"}

\* the raw-event keys written under date d
KeysOf(d) == { k \in DOMAIN blobEvents : k.date = d }

Dates == { DateOf(t) : t \in Instants }

\* an aggregate without its wall-clock stamp
Counts(stats) == [stats EXCEPT !.lastUpdated = 0]

\* the fold of the records stored under the keys ks, in the order they were
\* written
RECURSIVE FoldKeys(_, _)
FoldKeys(ks, d) ==
    IF ks = {} THEN <<>>
    ELSE LET last == CHOOSE k \in ks : \A j \in ks : j.id[2] <= k.id[2]
         IN  << UpdateProductionStats(FoldKeys(ks \ {last}, d), blobEvents[last], d, 0) >>

\* the fold harness' log, refolded from a start, by either fold
RECURSIVE FoldSeq(_, _)
FoldSeq(start, entries) ==
    IF entries = <<>> THEN start
    ELSE LET n == Len(entries)
         IN  << UpdateProductionStats(FoldSeq(start, SubSeq(entries, 1, n - 1)),
                                      EventRecord(entries[n].req, entries[n].t),
                                      FoldDay, entries[n].t) >>

RECURSIVE LocalFoldSeq(_, _)
LocalFoldSeq(start, entries) ==
    IF entries = <<>> THEN start
    ELSE LET n == Len(entries)
         IN  << UpdateLocalStats(LocalFoldSeq(start, SubSeq(entries, 1, n - 1)),
                                 entries[n].req, FoldDay, entries[n].t) >>

Perms(n) == { f \in [1..n -> 1..n] : \A i, j \in 1..n : f[i] = f[j] => i = j }

Elems(seq) == { seq[i] : i \in 1..Len(seq) }

\* number of logged requests satisfying P
CountLog(P(_)) == Cardinality({ i \in 1..Len(foldLog) : P(foldLog[i].req) })

\* sum of data.duration over the logged requests satisfying P
RECURSIVE DurationSum(_, _)
DurationSum(P(_), n) ==
    IF n = 0 THEN 0
    ELSE DurationSum(P, n - 1)
         + (IF P(foldLog[n].req) THEN DurationOf(foldLog[n].req.data) ELSE 0)

----------------------------------------------------------------------------
\* Properties.

\* C1: whenever an invocation is begun with a request whose event is absent or
\* not one of the 12 kinds, it ends at once with status 400 and the step
\* changes neither the blob store (raw events, aggregates) nor localStore.
C1_InvalidRejected ==
    [][ \A p \in Procs :
          ( /\ Idle(p)
            /\ started' = started + 1
            /\ call'[p].req.event \notin VALID_EVENTS )
          => /\ pc'[p] = "done"
             /\ resp'[p].statusCode = 400
             /\ UNCHANGED <<blobEvents, blobStats, localStore>> ]_vars

\* C1 witness: a rejected unknown kind sits next to data stored by earlier
\* accepted ingests.
C1_Witness ==
    \E p \in Procs :
        /\ pc[p] = "done"
        /\ resp[p].statusCode = 400
        /\ call[p].req.event = "bogus"
        /\ (DOMAIN blobStats # {} \/ localStore.events # <<>>)

\* C2: a successful aggregate write replaces the stored aggregate by exactly
\* what the writer computed from its own earlier read, whatever was written in
\* between (no merge, no compare-and-swap, no retry): the last writer wins.
C2_LastWriterWins ==
    [][ \A p \in Procs :
          ( /\ pc[p] = "setStats"
            /\ pc'[p] = "done"
            /\ resp'[p].statusCode = 200 )
          => /\ call[p].today \in DOMAIN blobStats'
             /\ blobStats'[call[p].today] = call[p].stats[1] ]_vars

\* C2 witness: two ingests of one date have both returned 200, both raw
\* records are stored, and the aggregate holds the contribution of one.
C2_Witness ==
    \E p, q \in Procs :
        /\ p # q
        /\ pc[p] = "done" /\ pc[q] = "done"
        /\ resp[p].statusCode = 200 /\ resp[q].statusCode = 200
        /\ "eventKey" \in DOMAIN resp[p].body /\ "eventKey" \in DOMAIN resp[q].body
        /\ LET d == resp[p].body.eventKey.date
           IN  /\ resp[q].body.eventKey.date = d
               /\ KeysOf(d) = { resp[p].body.eventKey, resp[q].body.eventKey }
               /\ d \in DOMAIN blobStats
               /\ HourlyTotal(blobStats[d]) = 1

\* C3: with no overlap and no store failure, whenever no ingest is in flight
\* the aggregate of each date D is the fold, in write order, of exactly the
\* raw records stored under events/D/ (none stored for a date without
\* records); and an ingest in flight updates the aggregate of its key's date.
C3_AggregateIsFoldOfBucket ==
    /\ \A p \in Procs : InFlight(p) => StatsDate(call[p]) = call[p].eventKey.date
    /\ Quiet =>
         \A d \in Dates \cup { k.date : k \in DOMAIN blobEvents } \cup DOMAIN blobStats :
            IF KeysOf(d) = {}
            THEN d \notin DOMAIN blobStats
            ELSE /\ d \in DOMAIN blobStats
                 /\ Counts(blobStats[d]) = Counts(FoldKeys(KeysOf(d), d)[1])

\* C3 witness: a date holds several records, one of them an event whose own
\* timestamp lies on another date.
C3_Witness ==
    /\ Quiet
    /\ \E d \in DOMAIN blobStats :
          /\ Cardinality(KeysOf(d)) >= 2
          /\ \E k \in KeysOf(d) : DateOf(blobEvents[k].timestamp) # d

\* C4: folded from no aggregate, the counters are the per-kind sums of the
\* dispatch table over the events folded.
C4_CountersArePerKindSums ==
    (foldIn = <<>> /\ foldLog # <<>>) =>
        LET a == foldAgg[1]
        IN  /\ a.pageViews = CountLog(LAMBDA r : r.event = "page_view")
            /\ a.sessions = CountLog(LAMBDA r : r.event = "session_start")
            /\ \A c \in Cards :
                /\ a.cardHovers[c] =
                      CountLog(LAMBDA r : r.event = "card_hover_start" /\ r.card = c)
                /\ a.cardClicks[c] =
                      CountLog(LAMBDA r : r.event = "card_click" /\ r.card = c)
                /\ a.cardHoverTime[c] =
                      DurationSum(LAMBDA r : r.event = "card_hover_end" /\ r.card = c,
                                  Len(foldLog))
            /\ a.totalSessionDuration =
                  DurationSum(LAMBDA r : r.event = "session_end", Len(foldLog))

\* C4 witness: a page view and a timed hover have been folded from nothing.
C4_Witness ==
    /\ foldIn = <<>>
    /\ Len(foldLog) >= 2
    /\ foldAgg[1].pageViews >= 1
    /\ foldAgg[1].cardHoverTime["voice"] >= 1500

\* the parts of an aggregate that C5 compares, uniqueVisitors as a set
OrderView(stats) == [Counts(stats) EXCEPT !.uniqueVisitors = Elems(@)]

\* C5: folding the logged events from the same start in any other order gives
\* the same counters, countries, referers, set of unique visitors and
\* hourlyActivity.
C5_OrderIndependent ==
    foldLog # <<>> =>
        \A f \in Perms(Len(foldLog)) :
            OrderView(FoldSeq(foldIn, [i \in 1..Len(foldLog) |-> foldLog[f[i]]])[1])
                = OrderView(foldAgg[1])

\* C5 witness: page views of two different visitors have been folded, so the
\* two orders build uniqueVisitors differently.
C5_Witness ==
    \E i, j \in 1..Len(foldLog) :
        /\ i < j
        /\ foldLog[i].req.event = "page_view"
        /\ foldLog[j].req.event = "page_view"
        /\ VisitorHash(foldLog[i].req) # VisitorHash(foldLog[j].req)

\* the last two folds were of one and the same page_view event
SamePageViewTwice ==
    LET n == Len(foldLog)
    IN  /\ n >= 2
        /\ foldLog[n] = foldLog[n - 1]
        /\ foldLog[n].req.event = "page_view"

\* C6: after folding one page_view event twice, by either fold, pageViews is
\* 2 more than before and uniqueVisitors at most 1 longer, and no longer at
\* all when the visitor was already in it.
C6_PageViewTwice ==
    SamePageViewTwice =>
        LET n == Len(foldLog)
            v == VisitorHash(foldLog[n].req)
            was == FoldSeq(foldIn, SubSeq(foldLog, 1, n - 2))
            before == IF was = <<>> THEN NewStats(FoldDay, 0) ELSE was[1]
            lwas == LocalFoldSeq(IF foldIn = <<>> THEN <<>> ELSE << LocalOf(foldIn[1]) >>,
                                 SubSeq(foldLog, 1, n - 2))
            lbefore == IF lwas = <<>> THEN NewLocalStats(FoldDay) ELSE lwas[1]
        IN  /\ foldAgg[1].pageViews = before.pageViews + 2
            /\ Len(foldAgg[1].uniqueVisitors) <= Len(before.uniqueVisitors) + 1
            /\ Includes(before.uniqueVisitors, v)
                 => Len(foldAgg[1].uniqueVisitors) = Len(before.uniqueVisitors)
            /\ foldLocal[1].pageViews = lbefore.pageViews + 2
            /\ Len(foldLocal[1].uniqueVisitors) <= Len(lbefore.uniqueVisitors) + 1
            /\ Includes(lbefore.uniqueVisitors, v)
                 => Len(foldLocal[1].uniqueVisitors) = Len(lbefore.uniqueVisitors)

\* C6 witness: the same page view folded twice onto an aggregate that already
\* lists its visitor.
C6_Witness ==
    /\ SamePageViewTwice
    /\ foldIn # <<>>
    /\ Includes(foldIn[1].uniqueVisitors, VisitorHash(foldLog[Len(foldLog)].req))

\* C7: an ingest whose read of the daily aggregate failed with an error does
\* not go on to return; it ends with the internal error (status 500).
C7_ReadErrorSurfaces ==
    [][ \A p \in Procs :
          (pc[p] = "setStats" /\ call[p].readError /\ pc'[p] = "done")
          => resp'[p].statusCode = 500 ]_vars

\* C8: the raw record is stored before the aggregate is read or written; a
\* failed aggregate write returns 500 and leaves the raw record and the
\* aggregates as they were; a failed raw write returns 500 at once, with no
\* aggregate read or write.
C8_RawFirstNoRollback ==
    [][ \A p \in Procs :
          /\ pc'[p] \in {"getStats", "setStats"}
               => call'[p].eventKey \in DOMAIN blobEvents'
          /\ (pc[p] = "setStats" /\ pc'[p] = "done" /\ resp'[p].statusCode # 200)
               => /\ resp'[p].statusCode = 500
                  /\ call[p].eventKey \in DOMAIN blobEvents'
                  /\ blobEvents'[call[p].eventKey] = call[p].rec
                  /\ UNCHANGED <<blobEvents, blobStats>>
          /\ (pc[p] = "setEvent" /\ pc'[p] # "setEvent"
                /\ call[p].eventKey \notin DOMAIN blobEvents')
               => /\ pc'[p] = "done"
                  /\ resp'[p].statusCode = 500
                  /\ UNCHANGED <<blobEvents, blobStats>> ]_vars

\* C8 witness: an ingest has ended with 500 and a raw record is stored whose
\* date has no aggregate.
C8_Witness ==
    /\ Quiet
    /\ \E p \in Procs : resp[p].statusCode = 500
    /\ \E k \in DOMAIN blobEvents : k.date \notin DOMAIN blobStats

\* C9: every ingest that has returned success returned an eventKey
\* events/<date>/<hour>/<id> under which the store holds the event record, on
\* whichever backend was selected.
C9_SuccessReturnsStoredKey ==
    \A p \in Procs :
        (pc[p] = "done" /\ resp[p].statusCode = 200) =>
            /\ "eventKey" \in DOMAIN resp[p].body
            /\ resp[p].body.eventKey \in DOMAIN blobEvents

\* C10: folded from nothing over the same accepted requests, the in-memory
\* aggregate and the durable aggregate agree on every counter, on
\* uniqueVisitors, countries, referers and hourlyActivity.
C10_BackendsAgree ==
    (foldIn = <<>> /\ foldLog # <<>>) => foldLocal[1] = LocalOf(foldAgg[1])

----------------------------------------------------------------------------
\* Helpers of the retrieval properties.

\* F(seq[1]) + ... + F(seq[n])
RECURSIVE SumOver(_, _)
SumOver(F(_), seq) ==
    IF seq = <<>> THEN 0 ELSE F(seq[Len(seq)]) + SumOver(F, SubSeq(seq, 1, Len(seq) - 1))

\* the value of key k in map m, 0 where it has none
ValueAt(m, k) == IF k \in DOMAIN m THEN m[k] ELSE 0

\* a summary has been answered from stored aggregates
SummaryDone ==
    /\ qry.pc = "done"
    /\ qry.type = "summary"
    /\ report.statusCode = 200
    /\ report.body.mode \in {"production-blobs", "local"}

\* the aggregates of the store the finished summary read
StatsRead == IF report.body.mode = "local" THEN localStore.stats ELSE blobStats

\* the stored aggregates of the dates of the window, in the order of the dates
StoredIn(dates, stats) ==
    LET has == Filter(dates, LAMBDA d : d \in DOMAIN stats)
    IN  [i \in 1..Len(has) |-> stats[has[i]]]

\* the formatter has been applied to merged totals
Formatted == qry.type = "summary" /\ report.statusCode = 200 /\ "overview" \in DOMAIN report.body

\* the realtime formatter has been applied to retained events
RealtimeFormatted ==
    qry.type = "realtime" /\ report.statusCode = 200 /\ "eventStream" \in DOMAIN report.body

\* the three ingests of the scenario, as event records of visitor A
IsScenario(recs) ==
    /\ Len(recs) = 3
    /\ recs[1].event = "page_view"
    /\ recs[2].event = "card_hover_start" /\ recs[2].card = "voice"
    /\ recs[3].event = "card_hover_end" /\ recs[3].card = "voice"
    /\ DurationOf(recs[3].data) = 1500
    /\ \A i \in 1..3 : recs[i].visitorHash = hashString(IpA \o UaShort)

\* the raw records of the blob store in the order they were written
RECURSIVE WrittenOrder(_)
WrittenOrder(ks) ==
    IF ks = {} THEN <<>>
    ELSE LET last == CHOOSE k \in ks : \A j \in ks : j.id[2] <= k.id[2]
         IN  Append(WrittenOrder(ks \ {last}), blobEvents[last])

----------------------------------------------------------------------------
\* Properties of retrieval.

\* C11: no step of an ingest or of a query removes or changes a stored raw
\* event record: each key of the blob store keeps its record, and every record
\* of localStore.events is still in localStore.events.
C11_RawRecordsKept ==
    [][ /\ \A k \in DOMAIN blobEvents :
              k \in DOMAIN blobEvents' /\ blobEvents'[k] = blobEvents[k]
        /\ \A i \in 1..Len(localStore.events) :
              Includes(localStore'.events, localStore.events[i]) ]_vars

\* C12: a finished summary's totals are, field by field, the sums over the
\* aggregates it read: scalar counters, per-card counters, every countries and
\* referers key, the 24 hourly slots; the rows of dailyStats add up to the
\* overview; when no read failed the aggregates read are exactly those stored
\* for the dates of the window, and for a window of one day the totals are that
\* day's aggregate.
C12_MergeIsSum ==
    SummaryDone =>
        LET days == qry.acc.dailyStats
            tot == qry.acc.totals
            body == report.body
        IN  /\ body.overview.pageViews = SumOver(LAMBDA d : d.pageViews, days)
            /\ body.overview.sessions = SumOver(LAMBDA d : d.sessions, days)
            /\ tot.pageViews = body.overview.pageViews
            /\ tot.sessions = body.overview.sessions
            /\ tot.totalSessionDuration = SumOver(LAMBDA d : d.totalSessionDuration, days)
            /\ \A c \in Cards :
                /\ body.cardEngagement[c].hovers = SumOver(LAMBDA d : d.cardHovers[c], days)
                /\ body.cardEngagement[c].clicks = SumOver(LAMBDA d : d.cardClicks[c], days)
                /\ tot.cardHoverTime[c] = SumOver(LAMBDA d : d.cardHoverTime[c], days)
            /\ \A h \in 0..(HoursPerDay - 1) :
                body.hourlyActivity[h] = SumOver(LAMBDA d : d.hourlyActivity[h], days)
            /\ DOMAIN tot.countries = UNION { DOMAIN days[i].countries : i \in 1..Len(days) }
            /\ DOMAIN tot.referers = UNION { DOMAIN days[i].referers : i \in 1..Len(days) }
            /\ \A k \in DOMAIN tot.countries :
                tot.countries[k] = SumOver(LAMBDA d : ValueAt(d.countries, k), days)
            /\ \A k \in DOMAIN tot.referers :
                tot.referers[k] = SumOver(LAMBDA d : ValueAt(d.referers, k), days)
            /\ SumOver(LAMBDA r : r.pageViews, body.dailyStats) = body.overview.pageViews
            /\ SumOver(LAMBDA r : r.sessions, body.dailyStats) = body.overview.sessions
            /\ ~qry.readError => days = StoredIn(qry.dates, StatsRead)
            /\ (Len(qry.dates) = 1 /\ Len(days) = 1) =>
                  \A f \in DOMAIN tot : tot[f] = days[1][f]

\* C12 witness: a summary has merged the aggregates of two days that share a
\* countries key, a referers key and a visitor.
C12_Witness ==
    /\ SummaryDone
    /\ Len(qry.acc.dailyStats) = 2
    /\ DOMAIN qry.acc.dailyStats[1].countries \cap DOMAIN qry.acc.dailyStats[2].countries # {}
    /\ DOMAIN qry.acc.dailyStats[1].referers \cap DOMAIN qry.acc.dailyStats[2].referers # {}
    /\ report.body.overview.pageViews = 3

\* C13: the uniqueVisitors of a finished summary is the number of distinct
\* visitor hashes over the days it merged: at most the sum of the days' own
\* counts and at least each of them.
C13_UniqueIsUnion ==
    SummaryDone =>
        LET days == qry.acc.dailyStats
            n == report.body.overview.uniqueVisitors
        IN  /\ n = Cardinality(UNION { Elems(days[i].uniqueVisitors) : i \in 1..Len(days) })
            /\ n <= SumOver(LAMBDA d : Len(d.uniqueVisitors), days)
            /\ \A i \in 1..Len(days) : n >= Len(days[i].uniqueVisitors)

\* C13 witness: two merged days list the same visitor, and the summary counts
\* fewer visitors than the days' counts add up to.
C13_Witness ==
    /\ SummaryDone
    /\ Len(qry.acc.dailyStats) = 2
    /\ Elems(qry.acc.dailyStats[1].uniqueVisitors)
         \cap Elems(qry.acc.dailyStats[2].uniqueVisitors) # {}
    /\ report.body.overview.uniqueVisitors
         < Len(qry.acc.dailyStats[1].uniqueVisitors) + Len(qry.acc.dailyStats[2].uniqueVisitors)

C15_MissingDayIsZero ==
    (qry.pc = "done" /\ qry.type = "summary" /\ report.body.mode # "production-no-storage") =>
        LET body == report.body
            stored == StoredIn(qry.dates, StatsRead)
        IN  /\ report.statusCode = 200
            /\ Len(body.dailyStats) <= Len(stored)
            /\ ~qry.readError => Len(body.dailyStats) = Len(stored)
            /\ \A i \in 1..Len(body.dailyStats) :
                  body.dailyStats[i].date \in DOMAIN StatsRead
            /\ stored = <<>> =>
                  /\ body.dailyStats = <<>>
                  /\ body.overview = [ pageViews |-> 0, uniqueVisitors |-> 0, sessions |-> 0,
                                       avgSessionDuration |-> << 0, "s" >>, bounceRate |-> 0 ]
                  /\ qry.acc.totals = ZeroTotals

\* C15 witness: a 7-day summary found an aggregate for one of its dates only.
C15_Witness ==
    /\ SummaryDone
    /\ ~qry.readError
    /\ Len(qry.dates) = 7
    /\ Len(report.body.dailyStats) = 1
    /\ report.body.overview.pageViews >= 1

\* C16: no figure of the formatted summary is NaN or Infinity, and each is 0
\* where its denominator is 0: avgSessionDuration without sessions, bounceRate
\* without sessions or without page views, a card's avgHoverTime and clickRate
\* without hovers of that card, every share without any hover.
C16_ZeroDenominators ==
    Formatted =>
        LET tot == qry.acc.totals
            body == report.body
        IN  /\ body.overview.avgSessionDuration[1] # NonFinite
            /\ body.overview.bounceRate # NonFinite
            /\ \A c \in Cards :
                /\ body.cardEngagement[c].avgHoverTime # NonFinite
                /\ body.cardEngagement[c].clickRate # NonFinite
                /\ body.cardEngagement[c].share # NonFinite
            /\ tot.sessions = 0 => body.overview.avgSessionDuration = << 0, "s" >>
            /\ (tot.sessions = 0 \/ tot.pageViews = 0) => body.overview.bounceRate = 0
            /\ \A c \in Cards :
                tot.cardHovers[c] = 0 =>
                    /\ body.cardEngagement[c].avgHoverTime = 0
                    /\ body.cardEngagement[c].clickRate = 0
            /\ (\A c \in Cards : tot.cardHovers[c] = 0) =>
                    \A c \in Cards : body.cardEngagement[c].share = 0

\* C16 witness: totals with sessions and clicks but no page view and no hover
\* have been formatted.
C16_Witness ==
    /\ Formatted
    /\ qry.acc.totals.sessions > 0
    /\ qry.acc.totals.pageViews = 0
    /\ TotalClicks(qry.acc.totals) > 0
    /\ TotalHovers(qry.acc.totals) = 0
    /\ qry.acc.totals.cardHoverTime["voice"] > 0

\* C17: peakHour is the lowest hour whose slot holds the maximum of the 24
\* slots; it lies in 0..23 and is 0 for the all-zero array.
C17_PeakIsFirstMaximum ==
    Formatted =>
        LET arr == report.body.hourlyActivity
            peak == report.body.peakHour
        IN  /\ peak \in 0..(HoursPerDay - 1)
            /\ \A h \in 0..(HoursPerDay - 1) : arr[h] <= arr[peak]
            /\ \A h \in 0..(peak - 1) : arr[h] < arr[peak]
            /\ (\A h \in 0..(HoursPerDay - 1) : arr[h] = 0) => peak = 0

\* C17 witness: the maximum is held by slots 5 and 23, slot 0 is below it, and
\* the peak reported is 5.
C17_Witness ==
    /\ Formatted
    /\ report.body.peakHour = 5
    /\ report.body.hourlyActivity[23] = report.body.hourlyActivity[5]
    /\ report.body.hourlyActivity[0] < report.body.hourlyActivity[5]

\* the blob store holds the records of the scenario and nothing else, all
\* under one date
ScenarioOnBlobs ==
    /\ Quiet
    /\ localStore.events = <<>>
    /\ IsScenario(WrittenOrder(DOMAIN blobEvents))
    /\ \E d \in DOMAIN blobStats : \A k \in DOMAIN blobEvents : k.date = d

\* the in-memory store holds the records of the scenario and nothing else, all
\* of one date
ScenarioOnLocal ==
    /\ Quiet
    /\ blobEvents = EmptyMap
    /\ IsScenario(localStore.events)
    /\ \E d \in DOMAIN localStore.stats :
          \A i \in 1..3 : DateOf(localStore.events[i].timestamp) = d

\* what the scenario leaves in the aggregates and in a 1d summary of mode m
ScenarioOutcome(stats, m) ==
    LET d == CHOOSE d \in DOMAIN stats : TRUE
        agg == stats[d]
    IN  /\ DOMAIN stats = {d}
        /\ agg.pageViews = 1
        /\ agg.uniqueVisitors = << hashString(IpA \o UaShort) >>
        /\ agg.cardHovers["voice"] = 1
        /\ agg.cardHoverTime["voice"] = 1500
        /\ ( /\ SummaryDone
             /\ report.body.mode = m
             /\ ~qry.readError
             /\ qry.range = "1d"
             /\ DateOf(qry.t0) = d ) =>
              /\ report.body.cardEngagement["voice"].avgHoverTime = 1500
              /\ report.body.cardEngagement["voice"].clickRate = 0
              /\ report.body.cardEngagement["voice"].share = 100

\* C18: once page_view, card_hover_start(voice) and card_hover_end(voice,
\* 1500) of visitor A have been ingested in that order on day D into an empty
\* store, D's aggregate has pageViews 1, uniqueVisitors [A], cardHovers.voice 1
\* and cardHoverTime.voice 1500, and a summary of range 1d asked on day D
\* reports for voice avgHoverTime 1500, clickRate 0 and share 100; on the blob
\* store and on the in-memory store alike.
C18_Scenario ==
    /\ ScenarioOnBlobs => ScenarioOutcome(blobStats, "production-blobs")
    /\ ScenarioOnLocal => ScenarioOutcome(localStore.stats, "local")

\* C18 witness: the scenario has been ingested into the blob store and its 1d
\* summary answered.
C18_Witness ==
    /\ ScenarioOnBlobs
    /\ SummaryDone
    /\ report.body.mode = "production-blobs"
    /\ ~qry.readError
    /\ qry.range = "1d"
    /\ \A k \in DOMAIN blobEvents : k.date = DateOf(qry.t0)
    /\ report.body.overview.pageViews = 1
    /\ report.body.cardEngagement["voice"].share = 100

\* C19: activeVisitors is the number of distinct visitor hashes among the
\* retained events with timestamp >= now - 5 minutes; an older retained event
\* still counts in pageViews and in the card counts and, the retained events
\* being no more than the stream holds, has its row in eventStream.
C19_ActiveWithinFiveMinutes ==
    RealtimeFormatted =>
        LET events == qry.recentEvents
            body == report.body
            cutoff == qry.t0 - FiveMinutes
        IN  /\ body.activeVisitors =
                  Cardinality({ v \in { events[i].visitorHash : i \in 1..Len(events) } :
                                  \E i \in 1..Len(events) :
                                      events[i].visitorHash = v /\ events[i].timestamp >= cutoff })
            /\ body.pageViews =
                  Cardinality({ i \in 1..Len(events) : events[i].event = "page_view" })
            /\ body.cardActivity["voice"].hovers =
                  Cardinality({ i \in 1..Len(events) :
                                  events[i].event = "card_hover_start"
                                    /\ events[i].card = "voice" })
            /\ Len(events) <= StreamCap =>
                  /\ Len(body.eventStream) = Len(events)
                  /\ \A i \in 1..Len(events) :
                        \E j \in 1..Len(body.eventStream) :
                            /\ body.eventStream[j].timestamp = events[i].timestamp
                            /\ body.eventStream[j].event = events[i].event

\* C19 witness: three events of the last 5 minutes from two visitors and one
\* page view 10 minutes old; two active visitors, four rows in the stream, the
\* old page view counted.
C19_Witness ==
    /\ RealtimeFormatted
    /\ Len(qry.recentEvents) = 4
    /\ Cardinality({ i \in 1..4 : qry.recentEvents[i].timestamp >= qry.t0 - FiveMinutes }) = 3
    /\ \E i \in 1..4 :
          /\ qry.recentEvents[i].timestamp = qry.t0 - 10 * MsPerMinute
          /\ qry.recentEvents[i].event = "page_view"
          /\ \A j \in 1..4 : j # i => qry.recentEvents[j].event # "page_view"
    /\ report.body.activeVisitors = 2
    /\ report.body.pageViews = 1
    /\ Len(report.body.eventStream) = 4

\* C20: a realtime query scans two buckets, that of the server's current hour
\* and that of the hour before it in time, which at hour 00 is hour 23 of the
\* date before.
C20_ScansPrecedingHour ==
    (qry.type = "realtime" /\ qry.buckets # <<>>) =>
        /\ Len(qry.buckets) = 2
        /\ Elems(qry.buckets) =
              { [ date |-> DateOf(qry.t0), hour |-> HourOf(qry.t0) ],
                [ date |-> DateOf(qry.t0 - MsPerHour), hour |-> HourOf(qry.t0 - MsPerHour) ] }

----------------------------------------------------------------------------
\* Properties of the fold's frame and of the retrieval handlers' routing.

\* the aggregate of date d as a fold finds it: the stored one, or the zero
\* literal
AggregateAt(stats, d) == IF d \in DOMAIN stats THEN stats[d] ELSE NewLocalStats(d)

\* a card event whose card is null or none of voice/value/agent
DropsCard(ev) ==
    /\ ev.event \in {"card_hover_start", "card_hover_end", "card_click"}
    /\ ev.card \notin Cards

\* an event whose referer is present and is no parseable URL
DropsReferer(ev) ==
    /\ ev.client.referer \notin {"", "direct"}
    /\ ~ParseUrl(ev.client.referer).parsed

\* what the fold of such an event may change between the aggregate before and
\* the aggregate after
DroppedQuietly(before, after, ev) ==
    /\ DropsCard(ev) =>
          /\ after.cardHovers = before.cardHovers
          /\ after.cardClicks = before.cardClicks
          /\ after.cardHoverTime = before.cardHoverTime
    /\ DropsReferer(ev) => after.referers = before.referers
    /\ after.hourlyActivity =
          [before.hourlyActivity EXCEPT ![HourOf(ev.timestamp)] = @ + 1]

\* C24: an ingest of a card event whose card is null or not voice/value/agent,
\* or of an event whose referer is no parseable URL, succeeds, leaves
\* cardHovers, cardClicks and cardHoverTime (for the card) and referers (for
\* the referer) of the day's aggregate exactly as they were, without a new
\* key, and adds one to the hourlyActivity slot of the event's hour; on the
\* blob store and on the in-memory store.
C24_DropDontDefault ==
    [][ /\ \A p \in Procs :
            ( /\ pc[p] = "setStats"
              /\ pc'[p] = "done"
              /\ DropsCard(call[p].rec) \/ DropsReferer(call[p].rec) ) =>
                /\ resp'[p].statusCode = 200
                /\ DroppedQuietly(AggregateAt(blobStats, call[p].today),
                                  blobStats'[call[p].today], call[p].rec)
        /\ localStore' # localStore =>
            LET ev == localStore'.events[Len(localStore'.events)]
                d == DateOf(ev.serverTime)
            IN  (DropsCard(ev) \/ DropsReferer(ev)) =>
                    /\ \E p \in Procs :
                          /\ resp'[p].statusCode = 200
                          /\ resp'[p].body.stored = Len(localStore'.events)
                    /\ DroppedQuietly(AggregateAt(localStore.stats, d),
                                      localStore'.stats[d], ev) ]_vars

\* the aggregate the fold harness' production fold starts its next step from
FoldBefore == IF foldAgg = <<>> THEN NewStats(FoldDay, now) ELSE foldAgg[1]

\* the same for the fold of the local branch
LocalFoldBefore == IF foldLocal = <<>> THEN NewLocalStats(FoldDay) ELSE foldLocal[1]

\* the counters of the dispatch table are the same in both aggregates
SameDispatchCounters(before, after) ==
    /\ after.pageViews = before.pageViews
    /\ after.uniqueVisitors = before.uniqueVisitors
    /\ after.sessions = before.sessions
    /\ after.totalSessionDuration = before.totalSessionDuration
    /\ after.cardHovers = before.cardHovers
    /\ after.cardClicks = before.cardClicks
    /\ after.cardHoverTime = before.cardHoverTime

\* exactly one of the 24 slots is one higher, that of hour h, the others are
\* the same
OneSlotMore(before, after, h) ==
    /\ h \in 0..(HoursPerDay - 1)
    /\ DOMAIN after.hourlyActivity = 0..(HoursPerDay - 1)
    /\ \A x \in 0..(HoursPerDay - 1) :
          after.hourlyActivity[x] = before.hourlyActivity[x] + (IF x = h THEN 1 ELSE 0)

\* countries after the fold of an event of country c
CountryCounted(before, after, c) ==
    after.countries = IF c \notin {"", "unknown"} THEN Bump(before.countries, c)
                      ELSE before.countries

\* C23: the fold of an event of a kind without a case in the switch (page_exit,
\* page_hidden, page_visible, iframe_hover_start, iframe_hover_end,
\* iframe_ready) leaves pageViews, uniqueVisitors, sessions,
\* totalSessionDuration, cardHovers, cardClicks and cardHoverTime as they were,
\* adds one to countries[country] when the country is present and not
\* "unknown", adds one to referers[hostname] when the referer is a parseable
\* URL and not "direct", and adds one to exactly one hourlyActivity slot.
C23_UnhandledKindFrame ==
    [][ \A req \in FoldRequests :
          ( /\ foldLog' = Append(foldLog, [ req |-> req, t |-> now ])
            /\ req.event \in VALID_EVENTS \ DispatchedKinds ) =>
              LET ev == EventRecord(req, now)
                  after == foldAgg'[1]
              IN  /\ SameDispatchCounters(FoldBefore, after)
                  /\ CountryCounted(FoldBefore, after, ev.client.country)
                  /\ after.referers =
                        IF ev.client.referer \notin {"", "direct"}
                             /\ ParseUrl(ev.client.referer).parsed
                        THEN Bump(FoldBefore.referers, ParseUrl(ev.client.referer).hostname)
                        ELSE FoldBefore.referers
                  /\ OneSlotMore(FoldBefore, after, HourOf(ev.timestamp))
                  /\ SameDispatchCounters(LocalFoldBefore, foldLocal'[1])
                  /\ CountryCounted(LocalFoldBefore, foldLocal'[1], ev.client.country)
                  /\ OneSlotMore(LocalFoldBefore, foldLocal'[1], HourOf(ev.timestamp)) ]_vars

\* C23 witness: two page_exit events, one with a referer of host badseed.xyz
\* and one with a country header stamped 22:00, have been folded into an
\* aggregate that
\* already had counts: the counters of the dispatch table are as before, the
\* country, the referer host and the hour slots are counted.
C23_Witness ==
    /\ foldIn = << BusyStats >>
    /\ Len(foldLog) = 2
    /\ \A i \in 1..2 : foldLog[i].req.event = "page_exit"
    /\ foldLog[1].req.referer = UrlA
    /\ foldLog[2].req.xCountry = "US" /\ foldLog[2].req.timestamp = T_Day0_22
    /\ SameDispatchCounters(BusyStats, foldAgg[1])
    /\ foldAgg[1].countries["detected"] = BusyStats.countries["detected"] + 1
    /\ foldAgg[1].referers["badseed.xyz"] = 2
    /\ HourlyTotal(foldAgg[1]) = HourlyTotal(BusyStats) + 2

\* the records of localStore.events that were written on date d
LocalEventsOf(d) ==
    { i \in 1..Len(localStore.events) : DateOf(localStore.events[i].serverTime) = d }

\* C25: every fold adds one to exactly one hourlyActivity slot, so that with
\* ingests that do not overlap and store calls that succeed, once no ingest is
\* in flight the 24 slots of the aggregate of each date add up to the number
\* of ingests stored under that date, whatever their kinds; on the blob store
\* and on the in-memory store.
C25_HourlySumIsIngestCount ==
    Quiet =>
        /\ \A d \in Dates :
              HourlyTotal(AggregateAt(blobStats, d)) = Cardinality(KeysOf(d))
        /\ \A d \in Dates :
              HourlyTotal(AggregateAt(localStore.stats, d)) = Cardinality(LocalEventsOf(d))

\* C25 witness: three events of three kinds, one of them without a case in
\* the switch and one stamped by the client at 22:00, are stored under one date
\* and the slots of its aggregate add up to 3 over two slots.
C25_Witness ==
    /\ Quiet
    /\ \E d \in DOMAIN blobStats :
          /\ Cardinality(KeysOf(d)) = 3
          /\ Cardinality({ blobEvents[k].event : k \in KeysOf(d) }) = 3
          /\ \E k \in KeysOf(d) : blobEvents[k].event = "page_exit"
          /\ HourlyTotal(blobStats[d]) = 3
          /\ blobStats[d].hourlyActivity[22] = 1

\* C26: the key of the raw record and the date of the aggregate an event is
\* folded into are those of the server's clock at the write, the hourlyActivity
\* slot is the hour of the event's own timestamp (the client's where it sent
\* one, else the server's): the write of the aggregate changes the aggregate
\* of the server date only, in the slot of the event's hour, and no aggregate
\* of another date, that of the client timestamp's date included.
C26_DualTimestamp ==
    [][ /\ \A p \in Procs :
            (pc[p] = "setEvent" /\ pc'[p] = "getStats") =>
                LET rec == call[p].rec
                    k == call[p].eventKey
                IN  /\ DOMAIN blobEvents' = DOMAIN blobEvents \cup {k}
                    /\ k.date = DateOf(rec.serverTime)
                    /\ k.hour = HourOf(rec.serverTime)
                    /\ rec.timestamp = IF call[p].req.timestamp # 0
                                       THEN call[p].req.timestamp ELSE rec.serverTime
        /\ \A p \in Procs :
            (pc[p] = "setStats" /\ pc'[p] = "done") =>
                LET rec == call[p].rec
                    d == DateOf(rec.serverTime)
                IN  /\ DOMAIN blobStats' = DOMAIN blobStats \cup {d}
                    /\ \A x \in DOMAIN blobStats : x # d => blobStats'[x] = blobStats[x]
                    /\ OneSlotMore(AggregateAt(blobStats, d), blobStats'[d],
                                   HourOf(rec.timestamp))
        /\ localStore' # localStore =>
            LET rec == localStore'.events[Len(localStore'.events)]
                d == DateOf(rec.serverTime)
            IN  /\ rec.serverTime = now
                /\ DOMAIN localStore'.stats = DOMAIN localStore.stats \cup {d}
                /\ \A x \in DOMAIN localStore.stats :
                      x # d => localStore'.stats[x] = localStore.stats[x]
                /\ OneSlotMore(AggregateAt(localStore.stats, d), localStore'.stats[d],
                               HourOf(rec.timestamp)) ]_vars

\* C26 witness: after an ingest on day 0, an event stamped by the client at
\* 22:00 of day 0 has been ingested at 00:05 of day 1: its record is under a
\* key of day 1, slot 22 of day 1's aggregate is 1, and day 0's aggregate has
\* nothing in slot 22.
C26_Witness ==
    /\ Quiet
    /\ DOMAIN blobStats = { DateOf(T_Day0_22), DateOf(T_Day0_22) + 1 }
    /\ \E k \in DOMAIN blobEvents :
          /\ k.date = DateOf(T_Day0_22) + 1
          /\ k.hour = 0
          /\ blobEvents[k].timestamp = T_Day0_22
    /\ blobStats[DateOf(T_Day0_22) + 1].hourlyActivity[22] = 1
    /\ blobStats[DateOf(T_Day0_22) + 1].hourlyActivity[0] = 0
    /\ blobStats[DateOf(T_Day0_22)].hourlyActivity[22] = 0

\* C27: a summary during which a store read failed with an error is answered
\* with an internal error, not with a report in which the date counts as
\* missing.
C27_SummaryReadErrorSurfaces ==
    (qry.pc = "done" /\ qry.type = "summary" /\ qry.readError) =>
        /\ report.statusCode = 500
        /\ "overview" \notin DOMAIN report.body

\* C22: a query whose type is none of summary, realtime and events ends with a
\* client error (a 4xx status) whatever the configuration of the retrieval
\* handler, and a query without a type is a summary query.
C22_InvalidTypeRejected ==
    /\ TypeOf("") = "summary"
    /\ (qry.pc = "done" /\ qry.type \notin QueryTypes)
          => report.statusCode \in 400..499


\* the number of events the scans before the k-th have collected
RECURSIVE Collected(_, _)
Collected(scans, k) ==
    IF k <= 1 THEN 0 ELSE Len(scans[k - 1].fetched) + Collected(scans, k - 1)

NonIncreasing(events) ==
    \A i, j \in 1..Len(events) : i < j => events[i].timestamp >= events[j].timestamp

\* C21: the events function called with a limit >= 1 (getRecentEvents,
\* getProductionEvents, getLocalEvents) returns at most limit events, its count
\* is the number of events returned, the events are in non-increasing order
\* of timestamp, and every store call of the scan was issued while fewer than
\* limit records had been collected: no list once the earlier buckets gave
\* limit records, no get beyond the room that was left.
C21_RecentEventsBounded ==
    (qry.type = "events" /\ qry.limit >= 1) =>
        /\ qry.pc = "done" =>
              /\ Len(report.body.events) <= qry.limit
              /\ report.body.count = Len(report.body.events)
              /\ NonIncreasing(report.body.events)
        /\ \A k \in 1..Len(qry.scans) :
              /\ Collected(qry.scans, k) < qry.limit
              /\ Collected(qry.scans, k) + qry.scans[k].gets <= qry.limit

\* an events query on the blob store has returned limit events out of a bucket
\* that lists more, and came back with them in another order than it fetched
\* them
C21_Witness ==
    /\ qry.type = "events" /\ qry.pc = "done"
    /\ report.body.mode = "production-blobs"
    /\ report.body.count = qry.limit
    /\ \E k \in 1..Len(qry.scans) :
          Len(qry.scans[k].listed) > Len(qry.scans[k].fetched) /\ qry.scans[k].gets = 2
    /\ report.body.events # qry.recentEvents


\* the stored events of the backend a realtime report was made from, by
\* their place in the store, that satisfy P and bear a timestamp of the
\* report's 30-minute window
StoredInWindow(P(_)) ==
    IF report.body.mode = "local"
    THEN { i \in 1..Len(localStore.events) :
             /\ P(localStore.events[i])
             /\ localStore.events[i].timestamp >= qry.t0 - ThirtyMinutes }
    ELSE { k \in DOMAIN blobEvents :
             /\ P(blobEvents[k])
             /\ blobEvents[k].timestamp >= qry.t0 - ThirtyMinutes }

\* C29: a realtime query scans at most two buckets; of a bucket it fetches
\* nothing but the last 50 keys of the listing, in their order, with at most
\* 50 get calls (at most 100 in all); and every event it retains, every row of
\* the event stream and every unit of activeVisitors, pageViews and
\* cardActivity comes from an event whose timestamp is >= now - 30 minutes.
C29_RealtimeWindow ==
    qry.type = "realtime" =>
        /\ Len(qry.scans) <= 2
        /\ \A k \in 1..Len(qry.scans) :
              LET sc == qry.scans[k]
                  skipped == IF Len(sc.listed) > 50 THEN Len(sc.listed) - 50 ELSE 0
              IN  /\ sc.gets <= 50
                  /\ Len(sc.fetched) <= sc.gets
                  /\ \A i \in 1..Len(sc.fetched) : sc.fetched[i] = sc.listed[skipped + i]
        /\ Collected(qry.scans, Len(qry.scans) + 1) <= 100
        /\ \A i \in 1..Len(qry.recentEvents) :
              qry.recentEvents[i].timestamp >= qry.t0 - ThirtyMinutes
        /\ (qry.pc = "done" /\ report.body.mode # "production-no-storage") =>
              LET b == report.body
              IN  /\ \A i \in 1..Len(b.eventStream) :
                        b.eventStream[i].timestamp >= qry.t0 - ThirtyMinutes
                  /\ b.pageViews
                        <= Cardinality(StoredInWindow(LAMBDA e : e.event = "page_view"))
                  /\ b.activeVisitors <= Cardinality(StoredInWindow(LAMBDA e : TRUE))
                  /\ \A c \in Cards :
                        /\ b.cardActivity[c].hovers
                              <= Cardinality(StoredInWindow(
                                    LAMBDA e : e.event = "card_hover_start" /\ e.card = c))
                        /\ b.cardActivity[c].clicks
                              <= Cardinality(StoredInWindow(
                                    LAMBDA e : e.event = "card_click" /\ e.card = c))

\* a realtime query on the blob store has listed a bucket of more than 50 keys,
\* fetched 50 of them, dropped fetched events older than the window and kept
\* more than the stream shows
C29_Witness ==
    /\ qry.type = "realtime" /\ qry.pc = "done"
    /\ report.body.mode = "production-blobs"
    /\ \E k \in 1..Len(qry.scans) :
          /\ Len(qry.scans[k].listed) > 50
          /\ qry.scans[k].gets = 50
          /\ \E i \in 1..50 :
                blobEvents[qry.scans[k].fetched[i]].timestamp < qry.t0 - ThirtyMinutes
    /\ Len(qry.recentEvents) > Len(report.body.eventStream)
    /\ report.body.pageViews > 0


\* the number of elements of s satisfying P
CountOf(s, P(_)) == Cardinality({ i \in 1..Len(s) : P(s[i]) })

\* C30: the event stream of a realtime report has at most 20 rows, in
\* non-increasing order of timestamp; its rows are rows of retained events,
\* as many as there are up to 20, and every retained event strictly newer than
\* a row of the stream is in the stream; pageViews and the hovers and clicks
\* of each card are the counts over all the retained events.
C30_StreamIsMostRecent ==
    (qry.type = "realtime" /\ qry.pc = "done"
     /\ report.body.mode # "production-no-storage") =>
        LET b == report.body
            retained == qry.recentEvents
            stream == b.eventStream
        IN  /\ Len(stream) <= 20
            /\ Len(stream) = IF Len(retained) < 20 THEN Len(retained) ELSE 20
            /\ NonIncreasing(stream)
            /\ \A i \in 1..Len(stream) :
                  /\ CountOf(stream, LAMBDA r : r = stream[i])
                        <= CountOf(retained, LAMBDA e : StreamRow(e) = stream[i])
                  /\ CountOf(retained, LAMBDA e : e.timestamp > stream[i].timestamp)
                        = CountOf(stream, LAMBDA r : r.timestamp > stream[i].timestamp)
            /\ b.pageViews = CountOf(retained, LAMBDA e : e.event = "page_view")
            /\ \A c \in Cards :
                  /\ b.cardActivity[c].hovers
                        = CountOf(retained, LAMBDA e : e.event = "card_hover_start" /\ e.card = c)
                  /\ b.cardActivity[c].clicks
                        = CountOf(retained, LAMBDA e : e.event = "card_click" /\ e.card = c)

\* a realtime report made of more than 20 retained events, fetched in another
\* order than by falling timestamp: the stream has 20 rows and fewer page
\* views and voice clicks than the report counts
C30_Witness ==
    /\ qry.type = "realtime" /\ qry.pc = "done"
    /\ report.body.mode # "production-no-storage"
    /\ Len(qry.recentEvents) > 20
    /\ Len(report.body.eventStream) = 20
    /\ ~NonIncreasing(qry.recentEvents)
    /\ report.body.pageViews
          > CountOf(report.body.eventStream, LAMBDA r : r.event = "page_view")
    /\ report.body.cardActivity["voice"].clicks
          > CountOf(report.body.eventStream,
                    LAMBDA r : r.event = "card_click" /\ r.card = "voice")


\* the moves of one invocation of the ingest handler that go forward: begin
\* with the raw write or finish at once, the raw write being followed by the
\* aggregate read, that by the aggregate write, that by the return
ForwardMoves ==
    { << "idle", "setEvent" >>, << "done", "setEvent" >>, << "idle", "done" >>,
      << "setEvent", "getStats" >>, << "setEvent", "done" >>,
      << "getStats", "setStats" >>, << "setStats", "done" >> }

\* the ingests: one invocation never goes back to a store call it has made,
\* the raw events change only where an invocation's raw write settles, the
\* aggregates only where its aggregate write settles, the in-memory store only
\* within an invocation of the local branch, and an invocation that returns
\* success from the durable branch has its raw event and its aggregate stored
IngestsWriteInFlight ==
    /\ \A p \in Procs : pc'[p] # pc[p] => << pc[p], pc'[p] >> \in ForwardMoves
    /\ blobEvents' # blobEvents =>
          \E p \in Procs : /\ pc[p] = "setEvent" /\ pc'[p] = "getStats"
                           /\ blobEvents' = Store(blobEvents, call[p].eventKey, call[p].rec)
    /\ blobStats' # blobStats =>
          \E p \in Procs : /\ pc[p] = "setStats" /\ pc'[p] = "done"
                           /\ DOMAIN blobStats' = DOMAIN blobStats \cup { call[p].today }
                           /\ \A d \in DOMAIN blobStats :
                                 d # call[p].today => blobStats'[d] = blobStats[d]
    /\ \A p \in Procs :
          (resp'[p] # resp[p] /\ resp'[p].statusCode = 200 /\ pc[p] # "idle"
           /\ pc[p] # "done") =>
              /\ pc[p] = "setStats"
              /\ call[p].eventKey \in DOMAIN blobEvents'
              /\ blobEvents'[call[p].eventKey] = call[p].rec
              /\ call[p].today \in DOMAIN blobStats'

\* the same events, each as many times, whatever their order
SameEvents(s, t) ==
    /\ Len(s) = Len(t)
    /\ \A i \in 1..Len(s) :
          CountOf(s, LAMBDA e : e = s[i]) = CountOf(t, LAMBDA e : e = s[i])

\* C28: nothing but an ingest in flight writes to a store, an ingest makes its
\* raw write, its aggregate read and its aggregate write at most once each and
\* in that order, a success is returned after both writes have completed, and
\* a step of a query writes nothing: it leaves the raw events and the
\* aggregates of the blob store as they were, and in the in-memory store the
\* aggregates and the events held (their order in the list apart).
C28_WritesOnlyInsideIngest ==
    [][ /\ IngestsWriteInFlight
        /\ (localStore'.stats # localStore.stats
            \/ ~SameEvents(localStore.events, localStore'.events)) =>
              \E p \in Procs : /\ started' = started + 1
                               /\ pc'[p] = "done"
                               /\ resp'[p].statusCode = 200
        /\ qry' # qry =>
              /\ UNCHANGED <<blobEvents, blobStats>>
              /\ localStore'.stats = localStore.stats
              /\ SameEvents(localStore.events, localStore'.events) ]_vars

\* after two ingests, one of which failed at its raw write and left nothing
\* behind and the other of which returned success with its event and its
\* aggregate stored, an events query has returned that one event
C28_Witness ==
    /\ started = 2
    /\ Cardinality(DOMAIN blobEvents) = 1
    /\ \E p \in Procs :
          /\ pc[p] = "done" /\ resp[p].statusCode = 200
          /\ resp[p].body.eventKey \in DOMAIN blobEvents
          /\ resp[p].body.eventKey.date \in DOMAIN blobStats
    /\ qry.pc = "done" /\ qry.type = "events"
    /\ report.statusCode = 200
    /\ report.body.count = 1


----------------------------------------------------------------------------
\* Properties of the scan order, of concurrent and failing ingests, of the
\* in-memory list and of the handlers' choice of backend.

\* bucket a comes after bucket b in the priority of the events scan: an
\* earlier date, or an earlier hour of the same date
LowerPriority(a, b) == a.date < b.date \/ (a.date = b.date /\ a.hour < b.hour)

\* the keys whose records an events query on the blob store has collected
FetchedKeys ==
    UNION { { qry.scans[k].fetched[i] : i \in 1..Len(qry.scans[k].fetched) } :
              k \in 1..Len(qry.scans) }

\* C31: an events query on the blob store none of whose store calls was
\* rejected has scanned buckets of today from hour 23 down, then of
\* yesterday from hour 23 down, each bucket's keys from the last listed
\* backwards; and if a stored record of today or yesterday is not in its
\* result, no record of a bucket of lower priority is.
C31_ScanPriority ==
    (qry.type = "events" /\ qry.limit >= 1 /\ qry.pc = "done"
     /\ report.body.mode = "production-blobs" /\ ~qry.readError) =>
        /\ \A k \in 1..Len(qry.scans) :
              LET sc == qry.scans[k]
              IN  /\ sc.listed \in Listings(BucketKeys(
                        [ date |-> IF k <= 24 THEN DateOf(qry.t0) ELSE DateOf(qry.t0) - 1,
                          hour |-> 23 - ((k - 1) % 24) ]))
                  /\ \A i \in 1..Len(sc.fetched) :
                        sc.fetched[i] = sc.listed[Len(sc.listed) + 1 - i]
        /\ \A a \in DOMAIN blobEvents \ FetchedKeys :
              a.date \in { DateOf(qry.t0), DateOf(qry.t0) - 1 } =>
                  \A b \in FetchedKeys : ~LowerPriority(b, a)
        /\ Len(report.body.events) = Cardinality(FetchedKeys)
        /\ \A i \in 1..Len(report.body.events) :
              \E b \in FetchedKeys : blobEvents[b] = report.body.events[i]

\* an events query with limit 2 has returned two of the records of hour 23,
\* leaving out others of that hour and the record of hour 22
C31_Witness ==
    /\ qry.type = "events" /\ qry.pc = "done" /\ ~qry.readError
    /\ report.body.mode = "production-blobs"
    /\ qry.limit = 2 /\ report.body.count = 2
    /\ \E a, c \in DOMAIN blobEvents \ FetchedKeys :
          /\ \E b \in FetchedKeys : b.date = a.date /\ b.hour = a.hour
          /\ \E b \in FetchedKeys : LowerPriority(c, b)


\* the daily aggregates stored on either backend
StoredAggregates ==
    { blobStats[d] : d \in DOMAIN blobStats }
    \cup { localStore.stats[d] : d \in DOMAIN localStore.stats }

NoDuplicates(seq) == \A i, j \in 1..Len(seq) : seq[i] = seq[j] => i = j

\* C32: in every reachable state, with ingests interleaved in any way and
\* store calls failing or not, no stored daily aggregate lists a visitor hash
\* twice in uniqueVisitors, and none lists more visitors than it counts page
\* views.
C32_UniqueVisitorsDistinct ==
    \A stats \in StoredAggregates :
        /\ NoDuplicates(stats.uniqueVisitors)
        /\ Len(stats.uniqueVisitors) <= stats.pageViews

\* two ingests have overlapped: the aggregate of a date lists two visitors,
\* counts fewer page views than raw page views are stored for the date (an
\* update was lost), and an ingest is still in flight
C32_Witness ==
    \E d \in DOMAIN blobStats :
        /\ Len(blobStats[d].uniqueVisitors) = 2
        /\ blobStats[d].pageViews
              < Cardinality({ k \in KeysOf(d) : blobEvents[k].event = "page_view" })
        /\ \E p \in Procs : InFlight(p)


\* no counter of the aggregate `after` is below that of `before`
NoCounterLower(before, after) ==
    /\ after.pageViews >= before.pageViews
    /\ after.sessions >= before.sessions
    /\ after.totalSessionDuration >= before.totalSessionDuration
    /\ \A c \in Cards :
          /\ after.cardHovers[c] >= before.cardHovers[c]
          /\ after.cardClicks[c] >= before.cardClicks[c]
          /\ after.cardHoverTime[c] >= before.cardHoverTime[c]
    /\ \A h \in 0..(HoursPerDay - 1) : after.hourlyActivity[h] >= before.hourlyActivity[h]

\* C33: with one ingest at a time, store calls failing or not, no step takes
\* the stored aggregate of a date away or lowers one of its counters
\* (pageViews, sessions, the per-card counters, totalSessionDuration, the
\* hourlyActivity slots).
C33_CountersNeverDecrease ==
    [][ /\ \A d \in DOMAIN blobStats :
              d \in DOMAIN blobStats' /\ NoCounterLower(blobStats[d], blobStats'[d])
        /\ \A d \in DOMAIN localStore.stats :
              /\ d \in DOMAIN localStore'.stats
              /\ NoCounterLower(localStore.stats[d], localStore'.stats[d]) ]_vars


\* the raw records stored under events/d/ whose kind is `kind`
RawOfKind(d, kind) == { k \in KeysOf(d) : blobEvents[k].event = kind }

\* C34: with ingests on the blob store interleaved in any way and no store
\* call failing, the aggregate of a date never counts more than is stored
\* under events/<date>/: pageViews at most the raw page_view records,
\* sessions at most the raw session_start records, the hourly slots together
\* at most all the raw records.
C34_NeverOverCounts ==
    \A d \in DOMAIN blobStats :
        /\ blobStats[d].pageViews <= Cardinality(RawOfKind(d, "page_view"))
        /\ blobStats[d].sessions <= Cardinality(RawOfKind(d, "session_start"))
        /\ HourlyTotal(blobStats[d]) <= Cardinality(KeysOf(d))

\* overlapping ingests have all returned and an update was lost: the
\* aggregate counts a page view and a session, and fewer events in its hourly
\* slots than raw records are stored
C34_Witness ==
    /\ Quiet
    /\ \E d \in DOMAIN blobStats :
          /\ blobStats[d].pageViews = 1
          /\ blobStats[d].sessions = 1
          /\ HourlyTotal(blobStats[d]) < Cardinality(KeysOf(d))


\* a step of a query: it starts one, goes on with one or hands its report over
QueryStep == qry' # qry

\* C35: a query is read-only: a step of a summary, realtime or events query
\* leaves the stored raw events, the order of the in-memory event list and
\* every daily aggregate as they were.
C35_QueriesReadOnly ==
    [][QueryStep => UNCHANGED <<blobEvents, blobStats, localStore>>]_vars

\* the events counted in the hourly slots of the in-memory aggregates of dates ds
RECURSIVE LocalHourly(_)
LocalHourly(ds) ==
    IF ds = {} THEN 0
    ELSE LET d == CHOOSE x \in ds : TRUE
         IN  HourlyTotal(localStore.stats[d]) + LocalHourly(ds \ {d})

\* the numbers, in the order of ingestion, of the events in the in-memory list
HeldNumbers == { localStore.events[i].timestamp : i \in 1..Len(localStore.events) }

Smaller(a, b) == IF a <= b THEN a ELSE b

\* C36: on the in-memory store, after any ingests and queries, the event list
\* holds at most 1000 events, namely the min(n, 1000) most recently ingested
\* of the n accepted ones, and the aggregates still count all n.
C36_HoldsMostRecent ==
    /\ Len(localStore.events) <= LocalCap
    /\ HeldNumbers = (Accepted - Smaller(Accepted, LocalCap) + 1)..Accepted
    /\ LocalHourly(DOMAIN localStore.stats) = Accepted

\* the same of behaviours in which ingests have only been followed by summary
\* and realtime queries so far: the list is still in the order of ingestion
C36_WithoutEventsQuery ==
    (\A i \in 1..(Len(localStore.events) - 1) :
        localStore.events[i].timestamp < localStore.events[i + 1].timestamp)
    => C36_HoldsMostRecent


\* the store an accepted ingest wrote to, and the store an answered query read
StoreWritten(p) == IF resp[p].body.mode = "production" THEN "blobs" ELSE "local"

StoreRead ==
    CASE report.body.mode = "production-blobs" -> "blobs"
      [] report.body.mode = "local" -> "local"
      [] OTHER -> "none"

\* C37: whatever the environment variables are, the tracker and the retrieval
\* handler choose the same backend: a query answered in the environment in
\* which an ingest was accepted read the store that ingest wrote to.
C37_SameBackend ==
    \A p \in Procs :
        (/\ pc[p] = "done" /\ resp[p].statusCode = 200
         /\ qry.pc = "done" /\ report.statusCode = 200)
        => StoreRead = StoreWritten(p)


\* C38: of merged totals whose counters are non-negative integers, the
\* formatted bounceRate is a percentage from 0 to 100, each card's share is
\* from 0 to 100, and each card's clickRate and avgHoverTime are not negative.
C38_RatesInRange ==
    Formatted =>
        LET body == report.body
        IN  /\ body.overview.bounceRate \in 0..100
            /\ \A c \in Cards :
                /\ body.cardEngagement[c].share \in 0..100
                /\ body.cardEngagement[c].clickRate >= 0
                /\ body.cardEngagement[c].avgHoverTime >= 0

\* the same of totals with no more clicks than page views
C38_RatesInRangeFewClicks ==
    TotalClicks(qry.acc.totals) <= qry.acc.totals.pageViews => C38_RatesInRange


\* a summary query whose range is none of 1d, 7d, 30d has been answered
UnknownRangeDone ==
    /\ qry.pc = "done"
    /\ qry.type = "summary"
    /\ qry.range \notin {"1d", "7d", "30d"}

\* C39: a summary query whose range is given but is none of 1d, 7d, 30d is
\* answered with status 200, the range string as given in the report's range
\* field, and otherwise the report of a 30d query over the same stored
\* aggregates: the same 30 dates, the same totals and rows.
C39_UnknownRangeIsThirtyDays ==
    UnknownRangeDone =>
        /\ report.statusCode = 200
        /\ report.body.range = qry.range
        /\ SummaryDone =>
            LET dates == SummaryDates(qry.zone, qry.t0, "30d")
                acc == MergeDates(NoMerge, dates, 1, StatsRead)
                thirty == FormatSummaryResponse(acc.totals, acc.dailyStats, "30d",
                                                report.body.generated, report.body.mode)
            IN  /\ qry.dates = dates
                /\ ~qry.readError => report.body = [thirty EXCEPT !.range = qry.range]

\* C39 witness: a summary asked with range 90d a day after the stored events
\* were ingested has been answered from the blob store without a failed read,
\* and reports their page views.
C39_Witness ==
    /\ UnknownRangeDone
    /\ SummaryDone
    /\ qry.range = "90d"
    /\ report.body.mode = "production-blobs"
    /\ ~qry.readError
    /\ DateOf(qry.t0) = 1
    /\ report.body.overview.pageViews > 0


====
